---------------------------- MODULE Spec2Model ----------------------------
(***************************************************************************)
(* Model of the adaptive-learning backend: the Diagnosis Engine            *)
(* (backend/app/quiz.py, submit_quiz, with the feedback and query          *)
(* functions of backend/app/ai_coach.py), the Retrieval Engine             *)
(* (backend/app/search_engine.py, find_best_video), the transcript         *)
(* chunker of the Indexing Pipeline (data_factory/processors/chunker.py)   *)
(* and the quiz analysis engine (backend/app/quiz_engine.py); and the      *)
(* writers of the 'learning_videos' collection: store_video_data           *)
(* (data_factory/database/vector_store.py) and the live endpoint           *)
(* process_video (backend/app/transcript_pipeline.py); the tagger          *)
(* (data_factory/processors/tagger.py) and the orchestrator of the data    *)
(* factory (data_factory/main.py).                                         *)
(*                                                                         *)
(* Numbers: Python floats are modelled by exact rationals <<n, d>> with    *)
(* d > 0 in lowest terms; values rounded by round(x, 1) are integers in    *)
(* tenths.  Times are whole seconds.                                       *)
(***************************************************************************)
EXTENDS Integers, Sequences, FiniteSets, TLC

VARIABLES
    component,          \* which subsystem this behaviour exercises
    \* ---- Diagnosis Engine (submit_quiz) ----
    quiz_pc,            \* "ready" before the request, "done" after a response,
                        \* "http_503" / "http_500" after an error
    submission,         \* submission.answers of the processed request
    pillar_stats,       \* ordered dict pillar -> accumulators
    score,
    total_questions,
    percentage,         \* rational
    pillar_breakdown,   \* ordered dict pillar -> breakdown (total > 0 only)
    weakest_pillar,
    avg_time_ratio,     \* rational
    rushed_percentage,  \* rational
    learner_profile,
    failed_questions,   \* ids of the resolved questions answered wrongly
    coach_model,        \* ai_coach.model: "none" without an API key
    feedback_call,      \* model.generate_content for the feedback:
                        \* "not_called", "returned" or "raised"
    query_call,         \* the same for the search query
    unique_failed_tags, \* list(set(failed_tags))[:5]
    feedback,
    search_query,       \* the parts of the query, joined by single blanks
    \* ---- Retrieval Engine (find_best_video) ----
    search_pc,          \* "ready" before the call, "done" after it returned,
                        \* "raised" after an exception left it
    video_collection,   \* TRUE: the collection handle; FALSE: None
    index,              \* the records of the 'learning_videos' collection
    where_filter,       \* the filters the caller passed
    strict_outcome,     \* "ok" / "raise": the embedding and index calls, phase 1
    relaxed_outcome,    \* the same for phase 2, "not_called" if it did not run
    strict_result,      \* what the first _execute_search returned
    candidates,         \* the chunks the index returned to the deciding phase
    recommendations,    \* the list find_best_video returned
    \* ---- Indexing Pipeline (chunk_transcript) ----
    chunk_pc,           \* "ready" before the call, "done" after it
    transcript_list,    \* the segments passed to chunk_transcript
    chunk_size_minutes,
    chunks,             \* the list chunk_transcript returned
    \* ---- Quiz analysis engine (quiz_engine.analyze_student_performance) ----
    engine_pc,          \* "unimported" before the module is imported, then "ready"
    model_file,         \* the artifact at MODEL_PATH: missing, corrupt or valid
    model_package,      \* quiz_engine._model_package: <<>> for None, else <<package>>
    load_outcome,       \* what _load_model did in the last analysis
    analysis_input,     \* <<>> or <<[score, time_taken, topic]>> of the last call
    analysis,           \* <<>> or <<the dictionary the last call returned>>
    \* ---- Vector Index: the 'learning_videos' collection and its writers ----
    learning_videos,    \* the records of the collection
    store_calls,        \* the store_video_data calls made so far, oldest first
    \* ---- Transcript pipeline of the backend (POST /transcript/process) ----
    embedding_loaded,   \* transcript_pipeline.embedding_model is not None
    pipeline_collection,\* transcript_pipeline.video_collection is not None
    request,            \* per worker process: the process_video request it serves
    \* ---- Tagger (determine_style_with_scoring) ----
    tagger_pc,          \* "ready" before the call, "done" after it
    tag_title,          \* title
    tag_transcript,     \* full_transcript
    tag_duration,       \* duration, in seconds
    tag_scores,         \* scores: category -> points
    tag_style,          \* the style returned
    tag_granularity,    \* the granularity returned
    \* ---- Orchestrator of the data factory (run_orchestrator) ----
    mongo_connected,    \* videos_collection is not None
    gone_videos,        \* the tasks whose video is unavailable, private or removed
    tasks,              \* the documents of the 'videos' collection, by _id
    run_pc,             \* "idle" between runs, "running" inside the loop
    pending_tasks,      \* the tasks of the running loop not processed yet
    run_count           \* the runs started so far

quizVars == <<quiz_pc, submission, pillar_stats, score, total_questions,
              percentage, pillar_breakdown, weakest_pillar, avg_time_ratio,
              rushed_percentage, learner_profile, failed_questions, coach_model,
              feedback_call, query_call, unique_failed_tags, feedback,
              search_query>>

searchVars == <<search_pc, video_collection, index, where_filter, strict_outcome,
                relaxed_outcome, strict_result, candidates, recommendations>>

chunkVars == <<chunk_pc, transcript_list, chunk_size_minutes, chunks>>

engineVars == <<engine_pc, model_file, model_package, load_outcome, analysis_input,
                analysis>>

storeVars == <<learning_videos, store_calls>>

\* the variables of the Indexing Pipeline outside chunk_transcript
pipelineVars == <<embedding_loaded, pipeline_collection, request>>

taggerVars == <<tagger_pc, tag_title, tag_transcript, tag_duration, tag_scores, tag_style,
               tag_granularity>>

factoryVars == <<mongo_connected, gone_videos, tasks, run_pc, pending_tasks, run_count>>

indexingVars == <<storeVars, pipelineVars, taggerVars, factoryVars>>

vars == <<component, quizVars, searchVars, chunkVars, engineVars, indexingVars>>

-----------------------------------------------------------------------------
(* Bounds of the model *)

MaxAnswers == 3
MaxChunks == 2      \* records of an arbitrary small index
MaxVideos == 10     \* videos of a generated index
MaxSegments == 3    \* segments of a transcript
MaxStoreChunks == 2 \* chunks passed to one store_video_data call
MaxStoreCalls == 2  \* store_video_data calls of a behaviour
MaxTasks == 2       \* documents of the 'videos' collection
MaxRuns == 2        \* runs of the orchestrator in a behaviour

-----------------------------------------------------------------------------
(* Exact rationals standing for Python floats *)

RECURSIVE GCD(_, _)
GCD(a, b) == IF b = 0 THEN a ELSE GCD(b, a % b)

Abs(x) == IF x < 0 THEN -x ELSE x

\* n / d in lowest terms, d > 0
Rat(n, d) ==
    LET g == GCD(Abs(n), Abs(d))
        s == IF d < 0 THEN -1 ELSE 1
    IN  <<(s * n) \div g, (s * d) \div g>>

RAdd(a, b) == Rat(a[1] * b[2] + b[1] * a[2], a[2] * b[2])
RDivInt(a, k) == Rat(a[1], a[2] * k)
RLess(a, b) == a[1] * b[2] < b[1] * a[2]
RGeq(a, b) == ~RLess(a, b)
RInt(k) == <<k, 1>>

RECURSIVE RSum(_)
RSum(s) == IF s = <<>> THEN RInt(0) ELSE RAdd(Head(s), RSum(Tail(s)))

\* round(r * scale) to the nearest integer, ties to even
RoundScaled(r, scale) ==
    LET n == scale * r[1]
        d == r[2]
        q == n \div d
        rem == n % d
    IN  IF 2 * rem < d THEN q
        ELSE IF 2 * rem > d THEN q + 1
        ELSE IF q % 2 = 0 THEN q ELSE q + 1

\* round(x, 1), in tenths
RoundTenths(r) == RoundScaled(r, 10)

\* round(x, 2), in hundredths
RoundHundredths(r) == RoundScaled(r, 100)

-----------------------------------------------------------------------------
(* Diagnosis Engine: the question bank and the inputs of a submission *)

\* A field a stored question document does not carry
Missing == "<missing>"

\* enum DiagnosisPillar, in definition order
DiagnosisPillar == <<"Concept", "Implementation", "Complexity", "Debugging",
                     "Application">>

\* questions_map: the documents questions_collection.find returns, by str(_id)
questions_map ==
    [qid \in {"q1", "q2", "q3", "q4"} |->
        CASE qid = "q1" -> [correct_option_id |-> "A", diagnosis_pillar |-> "Concept",
                            ideal_time_seconds |-> 30, search_tags |-> <<"arrays", "loops">>]
          [] qid = "q2" -> [correct_option_id |-> "B", diagnosis_pillar |-> "Implementation",
                            ideal_time_seconds |-> 30, search_tags |-> <<"loops">>]
          [] qid = "q3" -> [correct_option_id |-> "A", diagnosis_pillar |-> "Security",
                            ideal_time_seconds |-> 60, search_tags |-> <<>>]
          [] qid = "q4" -> [correct_option_id |-> "B", diagnosis_pillar |-> Missing,
                            ideal_time_seconds |-> 0, search_tags |-> <<"stack">>]]

\* question ids a submission may name: "qx" is absent from the question bank
QuestionIds == {"q1", "q2", "q3", "q4", "qx"}
OptionIds == {"A", "B"}
TimesTaken == {5, 30}

\* models.QuestionAnswer; of an answer whose question is not in the bank the
\* handler reads the question_id only, so one such answer stands for all
QuestionAnswer ==
    {a \in [question_id : QuestionIds, selected_option_id : OptionIds,
            time_taken_seconds : TimesTaken] :
        \/ a.question_id \in DOMAIN questions_map
        \/ a.selected_option_id = "A" /\ a.time_taken_seconds = 5}

\* Text is a sequence of characters
Rep(c, n) == [i \in 1..n |-> c]

\* s[:n]
Take(s, n) == SubSeq(s, 1, IF Len(s) < n THEN Len(s) ELSE n)

RECURSIVE SeqsUpTo(_, _)
SeqsUpTo(S, n) ==
    IF n = 0 THEN {<<>>}
    ELSE LET shorter == SeqsUpTo(S, n - 1)
         IN  shorter \cup {Append(s, x) : s \in {t \in shorter : Len(t) = n - 1}, x \in S}

Submissions == SeqsUpTo(QuestionAnswer, MaxAnswers)

\* questions_map.get(answer.question_id) found a question
Resolved(answer) == answer.question_id \in DOMAIN questions_map

-----------------------------------------------------------------------------
(* Diagnosis Engine: PHASE 1, scoring and pillar tracking *)

EmptyStats(pillar) ==
    [pillar |-> pillar, correct |-> 0, total |-> 0, rushed |-> 0, time_ratio |-> <<>>]

\* pillar_stats before the loop: one entry per DiagnosisPillar member
InitialPillarStats == [i \in 1..Len(DiagnosisPillar) |-> EmptyStats(DiagnosisPillar[i])]

HasPillar(stats, pillar) == \E i \in 1..Len(stats) : stats[i].pillar = pillar

\* question.get("diagnosis_pillar", "Concept")
PillarOf(question) ==
    IF question.diagnosis_pillar = Missing THEN "Concept" ELSE question.diagnosis_pillar

\* time_taken_seconds / ideal_time if ideal_time > 0 else 1
TimeRatio(answer, question) ==
    IF question.ideal_time_seconds > 0
    THEN Rat(answer.time_taken_seconds, question.ideal_time_seconds)
    ELSE RInt(1)

\* time_ratio < 0.3
IsRushed(ratio) == RLess(ratio, Rat(3, 10))

\* Mutant of UpdateStats: the line that counts a correct answer is doubled.
UpdateStats_CountsCorrectTwice(entry, is_correct, time_ratio) ==
    [pillar |-> entry.pillar,
     correct |-> entry.correct + (IF is_correct THEN 2 ELSE 0),
     total |-> entry.total + 1,
     rushed |-> entry.rushed + (IF IsRushed(time_ratio) THEN 1 ELSE 0),
     time_ratio |-> Append(entry.time_ratio, time_ratio)]

\* "Update pillar stats": total, time_ratio, correct and rushed of the
\* answered question's pillar
UpdateStats(entry, is_correct, time_ratio) ==
    [pillar |-> entry.pillar,
     correct |-> entry.correct + (IF is_correct THEN 1 ELSE 0),
     total |-> entry.total + 1,
     rushed |-> entry.rushed + (IF IsRushed(time_ratio) THEN 1 ELSE 0),
     time_ratio |-> Append(entry.time_ratio, time_ratio)]

\* The body of "for answer in submission.answers" for an answer whose question
\* was found, on the loop state st = [score, pillar_stats, failed_questions].
ScoreResolved(st, answer) ==
    LET question == questions_map[answer.question_id]
        is_correct == answer.selected_option_id = question.correct_option_id
        pillar == PillarOf(question)
        time_ratio == TimeRatio(answer, question)
        \* dynamic init for unknown pillars
        stats == IF HasPillar(st.pillar_stats, pillar) THEN st.pillar_stats
                 ELSE Append(st.pillar_stats, EmptyStats(pillar))
        updated ==
            [i \in 1..Len(stats) |->
                IF stats[i].pillar = pillar
                THEN UpdateStats(stats[i], is_correct, time_ratio)
                ELSE stats[i]]
    IN  [score |-> st.score + (IF is_correct THEN 1 ELSE 0),
         pillar_stats |-> updated,
         failed_questions |-> IF is_correct THEN st.failed_questions
                              ELSE Append(st.failed_questions, answer.question_id)]

\* Mutant of ScoreAnswer: an answer whose question is not found is not skipped
\* but counted under the default pillar.
ScoreAnswer_CountsUnresolved(st, answer) ==
    IF ~Resolved(answer)
    THEN [st EXCEPT !.pillar_stats =
            [i \in 1..Len(@) |->
                IF @[i].pillar = "Concept"
                THEN [@[i] EXCEPT !.total = @ + 1, !.time_ratio = Append(@, RInt(1))]
                ELSE @[i]]]
    ELSE ScoreResolved(st, answer)

\* One pass of the loop body: "if not question: ... continue"
ScoreAnswer(st, answer) ==
    IF ~Resolved(answer) THEN st ELSE ScoreResolved(st, answer)

RECURSIVE ScoreLoop(_, _)
ScoreLoop(st, answers) ==
    IF answers = <<>> THEN st
    ELSE ScoreLoop(ScoreAnswer(st, Head(answers)), Tail(answers))

\* (score / total_questions) * 100 if total_questions > 0 else 0
Percentage(count, total) == IF total > 0 THEN Rat(count * 100, total) ELSE RInt(0)

\* total_questions = len(submission.answers)
TotalQuestions(answers) == Len(answers)

-----------------------------------------------------------------------------
(* Diagnosis Engine: PHASE 2, pillar breakdown and weakest pillar *)

Mean(ratios) == RDivInt(RSum(ratios), Len(ratios))

BreakdownOf(stats) ==
    [pillar |-> stats.pillar,
     correct |-> stats.correct,
     total |-> stats.total,
     accuracy |-> RoundTenths(Percentage(stats.correct, stats.total)),   \* tenths
     rushed_count |-> stats.rushed,
     avg_time_ratio |-> RoundHundredths(Mean(stats.time_ratio))]         \* hundredths

\* pillar_breakdown: the pillars with total > 0, in pillar_stats order
PillarBreakdown(stats) ==
    LET HasTotal(s) == s.total > 0
        kept == SelectSeq(stats, HasTotal)
    IN  [i \in 1..Len(kept) |-> BreakdownOf(kept[i])]

\* the loop "for pillar, data in pillar_breakdown.items()" from position i on,
\* with the running weakest_pillar and lowest_accuracy (tenths)
RECURSIVE WeakestLoop(_, _, _, _)
WeakestLoop(breakdown, i, weakest, lowest) ==
    IF i > Len(breakdown) THEN weakest
    ELSE IF breakdown[i].total >= 1 /\ breakdown[i].accuracy < lowest
         THEN WeakestLoop(breakdown, i + 1, breakdown[i].pillar, breakdown[i].accuracy)
         ELSE WeakestLoop(breakdown, i + 1, weakest, lowest)

\* weakest_pillar = "Concept"; lowest_accuracy = 100
WeakestPillar(breakdown) == WeakestLoop(breakdown, 1, "Concept", 1000)

-----------------------------------------------------------------------------
(* Diagnosis Engine: PHASE 3, learner profile *)

\* mean over the pillars that recorded a ratio of each pillar's mean ratio,
\* divided by max(1, number of such pillars)
AvgTimeRatio(stats) ==
    LET HasRatio(s) == s.time_ratio # <<>>
        timed == SelectSeq(stats, HasRatio)
        means == [i \in 1..Len(timed) |-> Mean(timed[i].time_ratio)]
        n == IF Len(timed) > 1 THEN Len(timed) ELSE 1
    IN  RDivInt(RSum(means), n)

RECURSIVE TotalRushed(_)
TotalRushed(stats) ==
    IF stats = <<>> THEN 0 ELSE Head(stats).rushed + TotalRushed(Tail(stats))

LearnerProfile_RushedFirst(pct, rushed_pct, ratio) ==
    IF RLess(RInt(40), rushed_pct) \/ RLess(ratio, Rat(6, 10)) THEN "Rushed"
    ELSE IF RGeq(pct, RInt(70)) THEN "High Achiever"
    ELSE "Struggling"

LearnerProfile(pct, rushed_pct, ratio) ==
    IF RGeq(pct, RInt(70)) THEN "High Achiever"
    ELSE IF RLess(RInt(40), rushed_pct) \/ RLess(ratio, Rat(6, 10)) THEN "Rushed"
    ELSE "Struggling"

-----------------------------------------------------------------------------
(* Diagnosis Engine: PHASE 4, feedback and search query *)

\* topics_collection: the topic documents, by _id
topics == [tid \in {"t1"} |-> [name |-> "Arrays"]]

\* submission.topic_id
TopicId == "t1"

\* topic.get("name", topic_id) if topic else topic_id
TopicName(topic_id) ==
    IF topic_id \in DOMAIN topics THEN topics[topic_id].name ELSE topic_id

\* "for q in failed_questions: failed_tags.extend(q.get("search_tags", []))"
RECURSIVE FailedTags(_)
FailedTags(failed) ==
    IF failed = <<>> THEN <<>>
    ELSE questions_map[Head(failed)].search_tags \o FailedTags(Tail(failed))

SeqRange(s) == {s[i] : i \in DOMAIN s}

\* list(set(tags)): the elements of the set in the order the set iterates
\* them, which for strings depends on the hash seed of the process
SetOrders(S) ==
    {o \in [1..Cardinality(S) -> S] : \A i, j \in DOMAIN o : i # j => o[i] # o[j]}

\* " ".join(unique_failed_tags[1:3]) if len(unique_failed_tags) > 1 else ""
JoinedOthers(tags) ==
    IF Len(tags) > 1 THEN SubSeq(tags, 2, IF Len(tags) < 3 THEN Len(tags) ELSE 3)
    ELSE <<"">>

\* f"{primary_concept} {other_concepts} {topic_name} {weakest_pillar}
\*    tutorial explained step by step"
TagQuery(tags, topic_name, weakest) ==
    <<tags[1]>> \o JoinedOthers(tags)
        \o <<topic_name, weakest, "tutorial", "explained", "step", "by", "step">>

\* the text model.generate_content returns, stripped
GeneratedFeedback == "<generated feedback>"
GeneratedQuery == <<"<generated query>">>

FeedbackNoKey == "Great job taking the quiz! Keep focusing on your weak areas."
FeedbackOnError == "Keep practicing! Consistency is key to mastering these concepts."

\* what the generative call of a function does: nothing without a model
CallOutcomes(model) == IF model = "none" THEN {"not_called"} ELSE {"returned", "raised"}

\* Mutant of generate_coaching_feedback: the call is not wrapped in try/except.
generate_coaching_feedback_Unguarded(model, outcome) ==
    IF model = "none" THEN [raised |-> FALSE, value |-> FeedbackNoKey]
    ELSE IF outcome = "raised" THEN [raised |-> TRUE, value |-> ""]
    ELSE [raised |-> FALSE, value |-> GeneratedFeedback]

\* generate_coaching_feedback: what it returns and whether it raises, given
\* the outcome of model.generate_content
generate_coaching_feedback(model, outcome) ==
    IF model = "none" THEN [raised |-> FALSE, value |-> FeedbackNoKey]
    ELSE IF outcome = "raised" THEN [raised |-> FALSE, value |-> FeedbackOnError]
    ELSE [raised |-> FALSE, value |-> GeneratedFeedback]

\* "Style Mapping based on Pillar"
StylePreference(weak_tags) ==
    IF "Concept" \in weak_tags THEN "Whiteboard animation logic visualization"
    ELSE IF "Implementation" \in weak_tags
         THEN "Live coding implementation tutorial python java"
    ELSE IF "Complexity" \in weak_tags
         THEN "Big-O time complexity analysis optimization"
    ELSE IF "Debugging" \in weak_tags
         THEN "Common mistakes debugging guide fix errors"
    ELSE IF "Application" \in weak_tags
         THEN "Real world application system design interview question"
    ELSE ""

\* Mutant of generate_smart_search_query: one fallback string on every
\* failure path.
generate_smart_search_query_TopicTutorial(model, outcome, profile, topic, weak_tags) ==
    IF model = "none" \/ outcome = "raised"
    THEN [raised |-> FALSE, value |-> <<topic, "tutorial">>]
    ELSE [raised |-> FALSE, value |-> GeneratedQuery]

\* generate_smart_search_query
generate_smart_search_query(model, outcome, profile, topic, weak_tags) ==
    IF model = "none" THEN [raised |-> FALSE, value |-> <<topic, "tutorial", profile>>]
    ELSE IF outcome = "raised"
         THEN [raised |-> FALSE,
               value |-> IF StylePreference(weak_tags) # ""
                         THEN <<topic, StylePreference(weak_tags)>>
                         ELSE <<topic, "tutorial">>]
    ELSE [raised |-> FALSE, value |-> GeneratedQuery]

-----------------------------------------------------------------------------
(* The variables of a subsystem before its operation ran, and of a subsystem
   a behaviour does not exercise *)

QuizIdle ==
    /\ submission = <<>>
    /\ pillar_stats = <<>>
    /\ score = 0
    /\ total_questions = 0
    /\ percentage = RInt(0)
    /\ pillar_breakdown = <<>>
    /\ weakest_pillar = "Concept"
    /\ avg_time_ratio = RInt(0)
    /\ rushed_percentage = RInt(0)
    /\ learner_profile = "none"
    /\ failed_questions = <<>>
    /\ feedback_call = "not_called"
    /\ query_call = "not_called"
    /\ unique_failed_tags = <<>>
    /\ feedback = ""
    /\ search_query = <<>>

SearchIdle ==
    /\ where_filter = [difficulty |-> Missing, style |-> Missing, granularity |-> Missing]
    /\ strict_outcome = "not_called"
    /\ relaxed_outcome = "not_called"
    /\ strict_result = <<>>
    /\ candidates = <<>>
    /\ recommendations = <<>>

QuizOff == quiz_pc = "off" /\ coach_model = "none" /\ QuizIdle

ChunkOff ==
    /\ chunk_pc = "off"
    /\ transcript_list = <<>>
    /\ chunk_size_minutes = 0
    /\ chunks = <<>>

SearchOff ==
    /\ search_pc = "off"
    /\ video_collection = FALSE
    /\ index = <<>>
    /\ SearchIdle

EngineOff ==
    /\ engine_pc = "off"
    /\ model_file = [state |-> "missing", package |-> <<>>]
    /\ model_package = <<>>
    /\ load_outcome = "not_called"
    /\ analysis_input = <<>>
    /\ analysis = <<>>

StoreOff ==
    /\ learning_videos = {}
    /\ store_calls = <<>>

\* the worker processes of the backend
Workers == {"w1", "w2"}

\* a worker that has not received its request
IdleRequest ==
    [pc |-> "idle", video_id |-> <<>>, chunks |-> <<>>, i |-> 0, response |-> "none"]

PipelineOff ==
    /\ embedding_loaded = FALSE
    /\ pipeline_collection = FALSE
    /\ request = [p \in Workers |-> IdleRequest]

TaggerIdle ==
    /\ tag_scores = <<>>
    /\ tag_style = "none"
    /\ tag_granularity = "none"

TaggerOff ==
    /\ tagger_pc = "off"
    /\ tag_title = <<>>
    /\ tag_transcript = <<>>
    /\ tag_duration = 0
    /\ TaggerIdle

FactoryOff ==
    /\ mongo_connected = FALSE
    /\ gone_videos = {}
    /\ tasks = <<>>
    /\ run_pc = "off"
    /\ pending_tasks = <<>>
    /\ run_count = 0

IndexingOff == StoreOff /\ PipelineOff /\ TaggerOff /\ FactoryOff

-----------------------------------------------------------------------------
(* Diagnosis Engine: the request handler *)

QuizInit ==
    /\ component = "quiz"
    /\ quiz_pc = "ready"
    /\ coach_model \in {"none", "configured"}
    /\ QuizIdle
    /\ SearchOff
    /\ ChunkOff
    /\ EngineOff
    /\ IndexingOff

\* POST /quiz/submit with the database connected: phases 1 to 4
SubmitQuiz ==
    /\ component = "quiz"
    /\ quiz_pc = "ready"
    \* each local of the handler is bound once, in program order
    /\ \E answers \in Submissions :
       \E st \in {ScoreLoop([score |-> 0, pillar_stats |-> InitialPillarStats,
                              failed_questions |-> <<>>], answers)} :
       \E total \in {TotalQuestions(answers)} :
       \E pct \in {Percentage(st.score, total)} :
       \E breakdown \in {PillarBreakdown(st.pillar_stats)} :
       \E ratio \in {AvgTimeRatio(st.pillar_stats)} :
       \E rushed_pct \in {Percentage(TotalRushed(st.pillar_stats), total)} :
       \E weakest \in {WeakestPillar(breakdown)} :
       \E profile \in {LearnerProfile(pct, rushed_pct, ratio)} :
       \E order \in SetOrders(SeqRange(FailedTags(st.failed_questions))) :
       \E tags \in {Take(order, 5)} :
       \E feedback_outcome \in CallOutcomes(coach_model) :
       \E query_outcome \in IF tags # <<>> THEN {"not_called"}
                             ELSE CallOutcomes(coach_model) :
       \E fb \in {generate_coaching_feedback(coach_model, feedback_outcome)} :
       \E sq \in {IF tags # <<>>
                    THEN [raised |-> FALSE,
                          value |-> TagQuery(tags, TopicName(TopicId), weakest)]
                    ELSE generate_smart_search_query(coach_model, query_outcome,
                            profile, TopicName(TopicId), {weakest})} :
            /\ submission' = answers
            /\ pillar_stats' = st.pillar_stats
            /\ score' = st.score
            /\ failed_questions' = st.failed_questions
            /\ total_questions' = total
            /\ percentage' = pct
            /\ pillar_breakdown' = breakdown
            /\ weakest_pillar' = weakest
            /\ avg_time_ratio' = ratio
            /\ rushed_percentage' = rushed_pct
            /\ learner_profile' = profile
            /\ unique_failed_tags' = tags
            /\ feedback_call' = feedback_outcome
            /\ feedback' = fb.value
            \* an exception out of either function leaves the handler: HTTP 500
            /\ IF fb.raised
               THEN /\ query_call' = "not_called"
                    /\ search_query' = <<>>
                    /\ quiz_pc' = "http_500"
               ELSE /\ query_call' = query_outcome
                    /\ search_query' = sq.value
                    /\ quiz_pc' = IF sq.raised THEN "http_500" ELSE "done"
    /\ UNCHANGED <<component, coach_model, searchVars, chunkVars, engineVars,
                   indexingVars>>

\* POST /quiz/submit while is_db_connected() is false: HTTP 503, nothing scored
SubmitQuizNoDatabase ==
    /\ component = "quiz"
    /\ quiz_pc = "ready"
    /\ quiz_pc' = "http_503"
    /\ UNCHANGED <<component, submission, pillar_stats, score, total_questions,
                   percentage, pillar_breakdown, weakest_pillar, avg_time_ratio,
                   rushed_percentage, learner_profile, failed_questions, coach_model,
                   feedback_call, query_call, unique_failed_tags, feedback,
                   search_query, searchVars, chunkVars, engineVars,
                   indexingVars>>

QuizNext == SubmitQuiz \/ SubmitQuizNoDatabase

SpecQuiz == QuizInit /\ [][QuizNext]_vars

-----------------------------------------------------------------------------
(* Diagnosis Engine: properties *)

RECURSIVE SumTotals(_)
SumTotals(stats) ==
    IF stats = <<>> THEN 0 ELSE Head(stats).total + SumTotals(Tail(stats))

ResolvedCount(answers) == Cardinality({i \in DOMAIN answers : Resolved(answers[i])})

\* C1: after a submission is processed, the totals of all pillar accumulators
\* add up to the number of answers whose question_id resolved; unresolved
\* answers add to no pillar.
C1_TotalsCountResolved ==
    quiz_pc = "done" => SumTotals(pillar_stats) = ResolvedCount(submission)

C1_Witness ==
    /\ quiz_pc = "done"
    /\ \E i \in DOMAIN submission : ~Resolved(submission[i])
    /\ ResolvedCount(submission) >= 2
    /\ \E i \in DOMAIN pillar_stats :
          pillar_stats[i].pillar = "Security" /\ pillar_stats[i].total >= 1

EligiblePillars == {i \in DOMAIN pillar_breakdown : pillar_breakdown[i].total >= 1}

\* C2: whenever some pillar has total >= 1, the reported weakest pillar is a
\* pillar with total >= 1 whose accuracy is the lowest among such pillars
\* ("Concept" is a default only when no pillar has total >= 1).
C2_WeakestIsLowestEligible ==
    (quiz_pc = "done" /\ EligiblePillars # {}) =>
        \E i \in EligiblePillars :
            /\ pillar_breakdown[i].pillar = weakest_pillar
            /\ \A j \in EligiblePillars :
                  pillar_breakdown[i].accuracy <= pillar_breakdown[j].accuracy

\* C3: the profile is decided in order: percentage >= 70 gives High Achiever
\* whatever rushed_percentage and avg_time_ratio are; otherwise
\* rushed_percentage > 40 or avg_time_ratio < 0.6 gives Rushed; otherwise
\* Struggling.
C3_ProfileOrder ==
    quiz_pc = "done" =>
        /\ RGeq(percentage, RInt(70)) => learner_profile = "High Achiever"
        /\ (RLess(percentage, RInt(70))
              /\ (RLess(RInt(40), rushed_percentage) \/ RLess(avg_time_ratio, Rat(6, 10))))
           => learner_profile = "Rushed"
        /\ (RLess(percentage, RInt(70))
              /\ ~RLess(RInt(40), rushed_percentage)
              /\ ~RLess(avg_time_ratio, Rat(6, 10)))
           => learner_profile = "Struggling"

\* a submission scoring 70% or more whose answers were rushed and fast
C3_Witness ==
    /\ quiz_pc = "done"
    /\ RGeq(percentage, RInt(70))
    /\ RLess(RInt(40), rushed_percentage)
    /\ RLess(avg_time_ratio, Rat(6, 10))
    /\ learner_profile = "High Achiever"

\* C4: answers whose question is absent from the bank are excluded from the
\* denominators: percentage and rushed_percentage are taken over the resolved
\* answers only.
C4_ResolvedDenominators ==
    quiz_pc = "done" =>
        /\ percentage = Percentage(score, ResolvedCount(submission))
        /\ rushed_percentage
              = Percentage(TotalRushed(pillar_stats), ResolvedCount(submission))

\* C12: for every pillar in the pillar breakdown produced by submit_quiz,
\* 0 <= accuracy <= 100, correct <= total and rushed_count <= total
\* (accuracy is held in tenths of a percent).
C12_BreakdownBounds ==
    quiz_pc = "done" =>
        \A i \in DOMAIN pillar_breakdown :
            /\ 0 <= pillar_breakdown[i].accuracy
            /\ pillar_breakdown[i].accuracy <= 1000
            /\ pillar_breakdown[i].correct <= pillar_breakdown[i].total
            /\ pillar_breakdown[i].rushed_count <= pillar_breakdown[i].total

\* a pillar answered in full and correctly, every answer rushed, next to a
\* pillar with an accuracy strictly between the bounds
C12_Witness ==
    /\ quiz_pc = "done"
    /\ \E i, j \in DOMAIN pillar_breakdown :
          /\ pillar_breakdown[i].accuracy = 1000
          /\ pillar_breakdown[i].rushed_count = pillar_breakdown[i].total
          /\ pillar_breakdown[j].accuracy > 0
          /\ pillar_breakdown[j].accuracy < 1000

\* the eligible pillars that share the lowest accuracy
LowestTied ==
    {i \in EligiblePillars :
        \A j \in EligiblePillars :
            pillar_breakdown[i].accuracy <= pillar_breakdown[j].accuracy}

\* C13: weakest-pillar selection is order-based: when several eligible pillars
\* tie at the lowest accuracy, the one selected is the earliest of them in the
\* order Concept, Implementation, Complexity, Debugging, Application, then the
\* dynamically discovered pillars as first seen (the order of pillar_breakdown).
C13_TieEarliestInOrder ==
    (quiz_pc = "done" /\ Cardinality(LowestTied) >= 2) =>
        \E i \in LowestTied :
            /\ weakest_pillar = pillar_breakdown[i].pillar
            /\ \A j \in LowestTied : i <= j

\* the elements of a list in order of first occurrence
RECURSIVE FirstSeen(_)
FirstSeen(s) ==
    IF s = <<>> THEN <<>>
    ELSE LET rest == FirstSeen(SubSeq(s, 1, Len(s) - 1))
         IN  IF s[Len(s)] \in SeqRange(rest) THEN rest ELSE Append(rest, s[Len(s)])

\* the parts of a query that are not empty
NonEmptyParts(query) == SelectSeq(query, LAMBDA part : part # "")

\* C14: when at least one failed question has search tags, the search query
\* lists the failed-question tags deduplicated, in order of first failure and
\* capped at 5, ahead of the topic name and the weakest-pillar name (so that
\* the query is a function of the submission).
C14_TagsInFailureOrder ==
    (quiz_pc = "done" /\ FailedTags(failed_questions) # <<>>) =>
        LET expected == Take(FirstSeen(FailedTags(failed_questions)), 5)
            parts == NonEmptyParts(search_query)
        IN  /\ Len(parts) >= Len(expected) + 2
            /\ SubSeq(parts, 1, Len(expected)) = expected
            /\ parts[Len(expected) + 1] = TopicName(TopicId)
            /\ parts[Len(expected) + 2] = weakest_pillar

\* the generative service was not configured or its call raised
QueryServiceUnavailable == coach_model = "none" \/ query_call = "raised"

\* C15 as stated: when no failed-question tags exist and the generative
\* service is unavailable (not configured, or the call raises), the search
\* query is "{topic} tutorial".
C15_TopicTutorial ==
    (quiz_pc = "done" /\ unique_failed_tags = <<>> /\ QueryServiceUnavailable) =>
        search_query = <<TopicName(TopicId), "tutorial">>

\* C15 (amended): when no failed-question tags exist the query is requested
\* from the generative service if one is configured; without a configured
\* service the query is "{topic} tutorial {learner_profile}"; when the call
\* raises it is "{topic} {style}" with the style phrase of the weakest pillar
\* if that is one of the five standard pillars, and "{topic} tutorial" if not.
C15_FallbackQuery ==
    (quiz_pc = "done" /\ unique_failed_tags = <<>>) =>
        /\ coach_model = "none" =>
              /\ query_call = "not_called"
              /\ search_query = <<TopicName(TopicId), "tutorial", learner_profile>>
        /\ coach_model # "none" => query_call \in {"returned", "raised"}
        /\ query_call = "raised" =>
              /\ Len(search_query) = 2
              /\ search_query[1] = TopicName(TopicId)
              /\ search_query[2] = "tutorial" <=> weakest_pillar \notin SeqRange(DiagnosisPillar)
              /\ weakest_pillar \in SeqRange(DiagnosisPillar)
                    => search_query[2] = StylePreference({weakest_pillar})

\* every answer correct, so no failed tags; the call raised and the weakest
\* pillar has a style phrase
C15_Witness ==
    /\ quiz_pc = "done"
    /\ unique_failed_tags = <<>>
    /\ submission # <<>>
    /\ query_call = "raised"
    /\ weakest_pillar = "Concept"
    /\ search_query = <<"Arrays", "Whiteboard animation logic visualization">>

\* C16: a failure of the generative service during feedback or query
\* generation is never propagated: the request ends with a response, not an
\* error; the feedback and the query are then the fallback strings of the
\* failure path taken, and score, pillar breakdown, weakest pillar and learner
\* profile are produced as for any other submission.
C16_ServiceFailureContained ==
    /\ quiz_pc # "http_500"
    /\ (feedback_call = "raised" \/ query_call = "raised") =>
          /\ quiz_pc = "done"
          /\ feedback_call = "raised" => feedback = FeedbackOnError
          /\ query_call = "raised" =>
                /\ Len(search_query) = 2
                /\ search_query[1] = TopicName(TopicId)
          /\ score = Cardinality({i \in DOMAIN submission :
                         /\ Resolved(submission[i])
                         /\ submission[i].selected_option_id
                              = questions_map[submission[i].question_id].correct_option_id})
          /\ \A i \in DOMAIN pillar_breakdown : pillar_breakdown[i].total >= 1
          /\ weakest_pillar \in
                {"Concept"} \cup {pillar_breakdown[i].pillar : i \in DOMAIN pillar_breakdown}
          /\ learner_profile \in {"High Achiever", "Rushed", "Struggling"}
    /\ (quiz_pc = "done" /\ coach_model = "none") =>
          /\ feedback = FeedbackNoKey
          /\ learner_profile \in {"High Achiever", "Rushed", "Struggling"}

\* both generative calls of one request raised and the request completed
C16_Witness ==
    /\ quiz_pc = "done"
    /\ feedback_call = "raised"
    /\ query_call = "raised"
    /\ score >= 1
    /\ pillar_breakdown # <<>>

-----------------------------------------------------------------------------
(* Retrieval Engine: the index and the inputs of a search *)

\* Distances of a stored chunk to the query, in thousandths
Distances == {0, 1, 1000}

\* Mutant of RelevancePercent: the sign of the exponent is lost,
\* round(100 * math.exp(distance * 0.5), 1).
RelevancePercent_GrowingExponent(distance) ==
    CASE distance = 0 -> 1000
      [] distance = 1 -> 1001
      [] distance = 2 -> 1001
      [] distance = 500 -> 1284
      [] distance = 1000 -> 1649
      [] distance = 1500 -> 2117
      [] distance = 2000 -> 2718

\* round(100 * math.exp(-distance * 0.5), 1) in tenths of a percent, tabulated
\* for the distances (thousandths) the model stores
RelevancePercent(distance) ==
    CASE distance = 0 -> 1000
      [] distance = 1 -> 1000
      [] distance = 2 -> 999
      [] distance = 500 -> 779
      [] distance = 1000 -> 607
      [] distance = 1500 -> 472
      [] distance = 2000 -> 368

\* document[:200]
DescriptionLimit == 200

\* The chunk text stored as a record's document: ten characters for a video
\* with an odd id, and for an even id a text of 204 characters whose last
\* blank is its 199th character
DocumentOf(video_id) ==
    IF video_id % 2 = 1 THEN Rep("a", 10)
    ELSE Rep("a", DescriptionLimit - 2) \o <<" ">> \o Rep("b", 5)

\* A record of the collection: the metadata store_video_data and process_video
\* write (both set "video_id"), the document, and the record's distance to
\* the query
StoredChunks ==
    {[video_id |-> v, difficulty |-> d, style |-> "Conceptual",
      granularity |-> "Specific", distance |-> x, document |-> DocumentOf(v)] :
        v \in {1, 2}, d \in {"Beginner", "Advanced"}, x \in Distances}

WideDistances == <<0, 1, 2, 500, 1000, 1500, 2000>>

WideChunk(v, k) ==
    [video_id |-> v,
     difficulty |-> IF v % 3 = 0 THEN "Advanced" ELSE "Beginner",
     style |-> "Conceptual",
     granularity |-> "Specific",
     distance |-> WideDistances[((v + 3 * k) % Len(WideDistances)) + 1],
     document |-> DocumentOf(v)]

\* An index of n videos: one chunk for an odd video id, two for an even one
RECURSIVE WideIndex(_)
WideIndex(n) ==
    IF n = 0 THEN <<>>
    ELSE WideIndex(n - 1)
            \o (IF n % 2 = 0 THEN <<WideChunk(n, 0), WideChunk(n, 1)>>
                ELSE <<WideChunk(n, 0)>>)

Indexes == SeqsUpTo(StoredChunks, MaxChunks) \cup {WideIndex(n) : n \in 3..MaxVideos}

\* difficulty, style, granularity: Optional[str] = None
Filters == [difficulty : {Missing, "Beginner", "Advanced"},
            style : {Missing, "Course"},
            granularity : {Missing, "Specific"}]

NoFilters == [difficulty |-> Missing, style |-> Missing, granularity |-> Missing]

RelaxedNote == "Showing best available match (exact filters not found)"

\* n_results=50
NResults == 50

-----------------------------------------------------------------------------
(* Retrieval Engine: the index query *)

\* where_filter: one equality constraint per filter given, AND-combined
Matches(chunk, filter) ==
    /\ filter.difficulty # Missing => chunk.difficulty = filter.difficulty
    /\ filter.style # Missing => chunk.style = filter.style
    /\ filter.granularity # Missing => chunk.granularity = filter.granularity

\* s, ascending by distance, with x inserted behind the records no farther than x
RECURSIVE InsertByDistance(_, _)
InsertByDistance(s, x) ==
    IF s = <<>> THEN <<x>>
    ELSE IF x.distance < Head(s).distance THEN <<x>> \o s
         ELSE <<Head(s)>> \o InsertByDistance(Tail(s), x)

\* nearest first; records at the same distance keep their order
RECURSIVE SortByDistance(_)
SortByDistance(s) ==
    IF s = <<>> THEN <<>>
    ELSE InsertByDistance(SortByDistance(SubSeq(s, 1, Len(s) - 1)), s[Len(s)])

\* video_collection.query(n_results=50, where=...): the nearest matching records
Query(records, filter) ==
    LET Match(c) == Matches(c, filter)
    IN  Take(SortByDistance(SelectSeq(records, Match)), NResults)

-----------------------------------------------------------------------------
(* Retrieval Engine: formatting, deduplication, the two-phase search *)

Ellipsis == <<".", ".", ".">>

\* document[:200] + "..." if len(document) > 200 else document
Description(document) ==
    IF Len(document) > DescriptionLimit
    THEN Take(document, DescriptionLimit) \o Ellipsis
    ELSE document

\* str.rfind(" "): the 0-based index of the last blank, -1 without one
RFindBlank(text) ==
    IF \E i \in DOMAIN text : text[i] = " "
    THEN (CHOOSE i \in DOMAIN text :
            text[i] = " " /\ \A j \in DOMAIN text : text[j] = " " => j <= i) - 1
    ELSE -1

\* chunker.get_chunk_summary(chunk), on the chunk's text_content
GetChunkSummary(text) ==
    IF Len(text) <= 200 THEN text
    ELSE LET truncated == Take(text, 200)
             last_space == RFindBlank(truncated)
         IN  (IF last_space > 150 THEN Take(truncated, last_space) ELSE truncated)
                \o Ellipsis

\* one entry of all_results
FormatResult(chunk) ==
    [video_id |-> chunk.video_id,
     description |-> Description(chunk.document),
     difficulty |-> chunk.difficulty,
     style |-> chunk.style,
     relevance_percent |-> RelevancePercent(chunk.distance),
     distance |-> chunk.distance,
     note |-> Missing]

SeenIndex(seen, vid) == CHOOSE i \in 1..Len(seen) : seen[i].video_id = vid

IsSeen(seen, vid) == \E i \in 1..Len(seen) : seen[i].video_id = vid

\* Mutant of Deduplicate: a later chunk of a video replaces the kept one
\* whatever its relevance.
RECURSIVE Deduplicate_KeepsLast(_, _)
Deduplicate_KeepsLast(all_results, seen_videos) ==
    IF all_results = <<>> THEN seen_videos
    ELSE LET result == Head(all_results)
             vid == result.video_id
         IN  IF ~IsSeen(seen_videos, vid)
             THEN Deduplicate_KeepsLast(Tail(all_results), Append(seen_videos, result))
             ELSE Deduplicate_KeepsLast(Tail(all_results),
                     [seen_videos EXCEPT ![SeenIndex(seen_videos, vid)] = result])

\* "for result in all_results": seen_videos as the ordered dict's values; a
\* replaced entry keeps the position of its key
RECURSIVE Deduplicate(_, _)
Deduplicate(all_results, seen_videos) ==
    IF all_results = <<>> THEN seen_videos
    ELSE LET result == Head(all_results)
             vid == result.video_id
         IN  IF ~IsSeen(seen_videos, vid)
             THEN Deduplicate(Tail(all_results), Append(seen_videos, result))
             ELSE IF result.relevance_percent
                        > seen_videos[SeenIndex(seen_videos, vid)].relevance_percent
             THEN Deduplicate(Tail(all_results),
                     [seen_videos EXCEPT ![SeenIndex(seen_videos, vid)] = result])
             ELSE Deduplicate(Tail(all_results), seen_videos)

RECURSIVE InsertByRelevance(_, _)
InsertByRelevance(s, x) ==
    IF s = <<>> THEN <<x>>
    ELSE IF x.relevance_percent > Head(s).relevance_percent THEN <<x>> \o s
         ELSE <<Head(s)>> \o InsertByRelevance(Tail(s), x)

\* unique_results.sort(key=relevance_percent, reverse=True): stable
RECURSIVE SortByRelevance(_)
SortByRelevance(s) ==
    IF s = <<>> THEN <<>>
    ELSE InsertByRelevance(SortByRelevance(SubSeq(s, 1, Len(s) - 1)), s[Len(s)])

FormatAndDeduplicateResults(results) ==
    LET all_results == [i \in 1..Len(results) |-> FormatResult(results[i])]
    IN  SortByRelevance(Deduplicate(all_results, <<>>))

\* the records the index hands to one _execute_search call
QueryResults(collection, records, filter, outcome) ==
    IF ~collection \/ outcome = "raise" THEN <<>> ELSE Query(records, filter)

\* _execute_search: [] without a collection, on an exception of the embedding
\* or the query, and on an empty answer
ExecuteSearch(collection, records, filter, outcome) ==
    IF ~collection THEN <<>>
    ELSE IF outcome = "raise" THEN <<>>
    ELSE IF Query(records, filter) = <<>> THEN <<>>
    ELSE FormatAndDeduplicateResults(Query(records, filter))

\* Mutant of Propagates: the calls are not wrapped in try/except.
Propagates_Unguarded(collection, outcome) == collection /\ outcome = "raise"

\* whether an exception leaves _execute_search: "except Exception as e:
\* ... return []" catches whatever the embedding or the query raises
Propagates(collection, outcome) == FALSE

\* Mutant of AnnotateTop: every result is marked.
AnnotateTop_MarksAll(result) ==
    [i \in 1..Len(result) |-> [result[i] EXCEPT !.note = RelaxedNote]]

\* result[0]["note"] = "Showing best available match (exact filters not found)"
AnnotateTop(result) == [result EXCEPT ![1].note = RelaxedNote]

SearchInit ==
    /\ component = "search"
    /\ search_pc = "ready"
    /\ video_collection \in BOOLEAN
    /\ index \in Indexes
    /\ SearchIdle
    /\ QuizOff
    /\ ChunkOff
    /\ EngineOff
    /\ IndexingOff

\* find_best_video(query_text, difficulty, style, granularity), strict search
\* returned results
FindBestVideoStrict ==
    /\ component = "search"
    /\ search_pc = "ready"
    /\ \E filter \in Filters, outcome \in {"ok", "raise"} :
       \E result \in {ExecuteSearch(video_collection, index, filter, outcome)} :
            /\ result # <<>>
            /\ where_filter' = filter
            /\ strict_outcome' = outcome
            /\ relaxed_outcome' = "not_called"
            /\ strict_result' = result
            /\ candidates' = QueryResults(video_collection, index, filter, outcome)
            /\ recommendations' = result
            /\ search_pc' = IF Propagates(video_collection, outcome)
                             THEN "raised" ELSE "done"
    /\ UNCHANGED <<component, video_collection, index, quizVars, chunkVars,
                   engineVars, indexingVars>>

\* find_best_video, strict search returned nothing: retry without filters
FindBestVideoRelaxed ==
    /\ component = "search"
    /\ search_pc = "ready"
    /\ \E filter \in Filters, outcome \in {"ok", "raise"}, retry \in {"ok", "raise"} :
       \E first \in {ExecuteSearch(video_collection, index, filter, outcome)} :
       \E result \in {ExecuteSearch(video_collection, index, NoFilters, retry)} :
            /\ first = <<>>
            /\ where_filter' = filter
            /\ strict_outcome' = outcome
            /\ relaxed_outcome' = retry
            /\ strict_result' = first
            /\ candidates' = QueryResults(video_collection, index, NoFilters, retry)
            /\ recommendations' = IF result # <<>> THEN AnnotateTop(result) ELSE <<>>
            /\ search_pc' = IF \/ Propagates(video_collection, outcome)
                                \/ Propagates(video_collection, retry)
                             THEN "raised" ELSE "done"
    /\ UNCHANGED <<component, video_collection, index, quizVars, chunkVars,
                   engineVars, indexingVars>>

SearchNext == FindBestVideoStrict \/ FindBestVideoRelaxed

SpecSearch == SearchInit /\ [][SearchNext]_vars

-----------------------------------------------------------------------------
(* Retrieval Engine: properties *)

RelaxedRan == relaxed_outcome # "not_called"

Unmarked(result) == \A i \in DOMAIN result : result[i].note = Missing

\* C5: the unfiltered search runs only when the filtered search returned no
\* result; strict results are returned without any marker; when the relaxed
\* search returns results, the first result carries the relaxed-match note and
\* no other result does.
C5_RelaxedOnlyAfterEmptyStrict ==
    search_pc = "done" =>
        /\ RelaxedRan <=> strict_result = <<>>
        /\ strict_result # <<>> =>
              recommendations = strict_result /\ Unmarked(recommendations)
        /\ (RelaxedRan /\ recommendations # <<>>) =>
              /\ recommendations[1].note = RelaxedNote
              /\ \A i \in 2..Len(recommendations) : recommendations[i].note = Missing

\* a filtered search that found nothing, answered by two or more relaxed results
C5_Witness ==
    /\ search_pc = "done"
    /\ where_filter.difficulty # Missing
    /\ strict_outcome = "ok"
    /\ RelaxedRan
    /\ Len(recommendations) >= 2
    /\ recommendations[1].note = RelaxedNote

\* C6: the returned list never holds two recommendations of the same parent
\* video; for every parent among the candidate chunks the kept entry has the
\* highest relevance of that parent's chunks; the list is in descending order
\* of relevance.
C6_DeduplicatedBestFirst ==
    search_pc = "done" =>
        /\ \A i, j \in DOMAIN recommendations :
              i # j => recommendations[i].video_id # recommendations[j].video_id
        /\ \A k \in DOMAIN candidates :
              \E i \in DOMAIN recommendations :
                 /\ recommendations[i].video_id = candidates[k].video_id
                 /\ recommendations[i].relevance_percent
                       >= RelevancePercent(candidates[k].distance)
        /\ \A i \in DOMAIN recommendations :
              \E k \in DOMAIN candidates :
                 /\ candidates[k].video_id = recommendations[i].video_id
                 /\ RelevancePercent(candidates[k].distance)
                       = recommendations[i].relevance_percent
        /\ \A i, j \in DOMAIN recommendations :
              i < j => recommendations[i].relevance_percent
                          >= recommendations[j].relevance_percent

\* two chunks of one video with different relevance among the candidates
C6_Witness ==
    /\ search_pc = "done"
    /\ recommendations # <<>>
    /\ \E k, l \in DOMAIN candidates :
          /\ k < l
          /\ candidates[k].video_id = candidates[l].video_id
          /\ RelevancePercent(candidates[k].distance)
                # RelevancePercent(candidates[l].distance)
    /\ \E k, l \in DOMAIN candidates : candidates[k].video_id # candidates[l].video_id

\* "n_results=9, # Return Top 9 matches for grid layout"
DefaultResultCount == 9

\* C7: the list find_best_video returns is truncated to the requested result
\* count (default 9): it never has more than 9 entries.
C7_AtMostNineResults ==
    search_pc = "done" => Len(recommendations) <= DefaultResultCount

\* a phase of the search found nothing: its embedding or index call raised,
\* or no record of the index matches its filters
PhaseEmpty(filter, outcome) ==
    \/ outcome = "raise"
    \/ \A i \in DOMAIN index : ~Matches(index[i], filter)

\* C17 as stated: find_best_video never raises, and it returns an empty list
\* if the embedding call or the index query fails, if the collection is
\* unavailable, or if both phases find no match.
C17_AnyFailureGivesEmpty ==
    /\ search_pc # "raised"
    /\ ( /\ search_pc = "done"
         /\ \/ ~video_collection
            \/ strict_outcome = "raise"
            \/ relaxed_outcome = "raise"
            \/ /\ PhaseEmpty(where_filter, strict_outcome)
               /\ PhaseEmpty(NoFilters, relaxed_outcome) )
       => recommendations = <<>>

\* C17 (amended): find_best_video never raises; a failure of the embedding
\* call or the index query inside a phase counts as that phase finding
\* nothing, and the list returned is empty if the collection is unavailable
\* or if both the strict and the relaxed phase fail or find no match.
C17_NeverRaises ==
    /\ search_pc # "raised"
    /\ ( /\ search_pc = "done"
         /\ \/ ~video_collection
            \/ /\ PhaseEmpty(where_filter, strict_outcome)
               /\ PhaseEmpty(NoFilters, relaxed_outcome) )
       => recommendations = <<>>

\* both phases raised against a collection that holds matching records
C17_Witness ==
    /\ search_pc = "done"
    /\ video_collection
    /\ \E i \in DOMAIN index : Matches(index[i], where_filter)
    /\ strict_outcome = "raise"
    /\ relaxed_outcome = "raise"
    /\ recommendations = <<>>

\* C19 as stated: the relevance reported for a returned chunk is strictly
\* decreasing in its distance: d1 < d2 gives relevance(d1) > relevance(d2).
C19_StrictlyDecreasing ==
    search_pc = "done" =>
        \A k, l \in DOMAIN recommendations :
            recommendations[k].distance < recommendations[l].distance
                => recommendations[k].relevance_percent
                      > recommendations[l].relevance_percent

\* C19 (amended): the relevance reported, which is rounded to one decimal, is
\* non-increasing in the distance: d1 < d2 gives relevance(d1) >= relevance(d2).
C19_NonIncreasing ==
    search_pc = "done" =>
        \A k, l \in DOMAIN recommendations :
            recommendations[k].distance < recommendations[l].distance
                => recommendations[k].relevance_percent
                      >= recommendations[l].relevance_percent

\* results at different distances with the same reported relevance, and a
\* farther result with a lower one
C19_Witness ==
    /\ search_pc = "done"
    /\ \E k, l, m \in DOMAIN recommendations :
          /\ recommendations[k].distance < recommendations[l].distance
          /\ recommendations[k].relevance_percent = recommendations[l].relevance_percent
          /\ recommendations[l].distance < recommendations[m].distance
          /\ recommendations[l].relevance_percent > recommendations[m].relevance_percent

\* the text is the document cut at a word boundary, followed by an ellipsis
CutAtWordBoundary(text, document) ==
    /\ Len(text) >= Len(Ellipsis)
    /\ SubSeq(text, Len(text) - Len(Ellipsis) + 1, Len(text)) = Ellipsis
    /\ LET kept == Len(text) - Len(Ellipsis)
       IN  /\ kept <= Len(document)
           /\ SubSeq(text, 1, kept) = SubSeq(document, 1, kept)
           /\ kept < Len(document) => document[kept + 1] = " "

\* C20: the description of every recommendation is at most 200 characters
\* long, and when the chunk text is longer it is the text cut at a word
\* boundary and ends with an ellipsis; the same holds of the preview
\* get_chunk_summary gives of a returned chunk's text.
C20_DescriptionWithinLimit ==
    search_pc = "done" =>
        \A k \in DOMAIN recommendations :
            \E c \in DOMAIN candidates :
                /\ candidates[c].video_id = recommendations[k].video_id
                /\ candidates[c].distance = recommendations[k].distance
                /\ Len(recommendations[k].description) <= 200
                /\ Len(GetChunkSummary(candidates[c].document)) <= 200
                /\ Len(candidates[c].document) > 200 =>
                      /\ CutAtWordBoundary(recommendations[k].description,
                                           candidates[c].document)
                      /\ CutAtWordBoundary(GetChunkSummary(candidates[c].document),
                                           candidates[c].document)

-----------------------------------------------------------------------------
(* Indexing Pipeline: transcript segments *)

\* MIN_CHUNK_TEXT_LENGTH = 50
MIN_CHUNK_TEXT_LENGTH == 50

Whitespace == {" "}

\* str.strip()
RECURSIVE StripLeft(_)
StripLeft(text) ==
    IF text # <<>> /\ Head(text) \in Whitespace THEN StripLeft(Tail(text)) ELSE text

RECURSIVE StripRight(_)
StripRight(text) ==
    IF text # <<>> /\ text[Len(text)] \in Whitespace
    THEN StripRight(SubSeq(text, 1, Len(text) - 1)) ELSE text

Strip(text) == StripRight(StripLeft(text))

\* " ".join(segments)
RECURSIVE Join(_)
Join(segments) ==
    IF segments = <<>> THEN <<>>
    ELSE IF Len(segments) = 1 THEN segments[1]
    ELSE segments[1] \o <<" ">> \o Join(Tail(segments))

\* segment texts: 24 characters between two blanks, and 50 characters
SegmentTexts == {<<" ">> \o Rep("x", 24) \o <<" ">>, Rep("y", MIN_CHUNK_TEXT_LENGTH)}
SegmentStarts == {0, 60, 120}
\* the "duration" key: <<>> when the segment has none, <<d>> otherwise
SegmentDurations == {<<>>, <<0>>, <<60>>}

\* a segment of the YouTube transcript API
Segments == [text : SegmentTexts, start : SegmentStarts, duration : SegmentDurations]

\* DEFAULT_CHUNK_SIZE_MINUTES = 5
DEFAULT_CHUNK_SIZE_MINUTES == 5

\* n contiguous segments of d seconds each, from second 0 on
Contiguous(n, d, text) ==
    [i \in 1..n |-> [text |-> text, start |-> (i - 1) * d, duration |-> <<d>>]]

\* twelve minutes of transcript in segments of 30, 60 or 90 seconds, with the
\* segment texts above or a text of five characters
TwelveMinutes == 12 * 60
TwelveMinuteTranscripts ==
    {Contiguous(TwelveMinutes \div d, d, text) :
        d \in {30, 60, 90}, text \in SegmentTexts \cup {Rep("z", 5)}}

Transcripts == SeqsUpTo(Segments, MaxSegments) \cup TwelveMinuteTranscripts

ChunkSizes == {1, 2, DEFAULT_CHUNK_SIZE_MINUTES}

-----------------------------------------------------------------------------
(* Indexing Pipeline: chunk_transcript *)

\* segment_start + segment.get("duration", 0)
SegmentEnd(segment) ==
    segment.start + (IF segment.duration = <<>> THEN 0 ELSE segment.duration[1])

\* the finished chunk: text joined, duration recorded, "segments" deleted
Finalize(current_chunk) ==
    [start_time |-> current_chunk.start_time,
     end_time |-> current_chunk.end_time,
     text_content |-> Join(current_chunk.segments),
     duration |-> current_chunk.end_time - current_chunk.start_time]

\* Mutant of KeepIfMeaningful: the length of the text is not looked at.
KeepIfMeaningful_Always(chunk) == <<chunk>>

\* "if len(current_chunk["text_content"]) >= MIN_CHUNK_TEXT_LENGTH: append"
KeepIfMeaningful(chunk) ==
    IF Len(chunk.text_content) >= MIN_CHUNK_TEXT_LENGTH THEN <<chunk>> ELSE <<>>

\* Mutant of NewChunk: the chunk opened after a close starts at 0.
NewChunk_StartsAtZero(segment_end) ==
    [start_time |-> 0, end_time |-> segment_end, segments |-> <<>>]

\* "Start new chunk": it starts where the closing segment ended
NewChunk(segment_end) ==
    [start_time |-> segment_end, end_time |-> segment_end, segments |-> <<>>]

\* Mutant of WindowReached: the chunk is closed only once the span exceeds
\* the window.
WindowReached_Exceeds(chunk_duration, chunk_size_seconds) ==
    chunk_duration > chunk_size_seconds

\* "if chunk_duration >= chunk_size_seconds"
WindowReached(chunk_duration, chunk_size_seconds) ==
    chunk_duration >= chunk_size_seconds

\* "for segment in transcript_list" from the segments left on, then the
\* handling of the remaining segments
RECURSIVE ChunkLoop(_, _, _, _)
ChunkLoop(left, current_chunk, out, chunk_size_seconds) ==
    IF left = <<>>
    THEN IF current_chunk.segments # <<>>
         THEN out \o KeepIfMeaningful(Finalize(current_chunk))
         ELSE out
    ELSE LET segment == Head(left)
             segment_end == SegmentEnd(segment)
             added == [start_time |-> current_chunk.start_time,
                       end_time |-> segment_end,
                       segments |-> Append(current_chunk.segments, Strip(segment.text))]
             chunk_duration == added.end_time - added.start_time
         IN  IF WindowReached(chunk_duration, chunk_size_seconds)
             THEN ChunkLoop(Tail(left), NewChunk(segment_end),
                            out \o KeepIfMeaningful(Finalize(added)), chunk_size_seconds)
             ELSE ChunkLoop(Tail(left), added, out, chunk_size_seconds)

ChunkTranscript(list, minutes) ==
    IF list = <<>> THEN <<>>
    ELSE ChunkLoop(list,
                   [start_time |-> list[1].start, end_time |-> 0, segments |-> <<>>],
                   <<>>, minutes * 60)

ChunkInit ==
    /\ component = "chunk"
    /\ chunk_pc = "ready"
    /\ transcript_list \in Transcripts
    /\ chunk_size_minutes \in ChunkSizes
    /\ chunks = <<>>
    /\ QuizOff
    /\ SearchOff
    /\ EngineOff
    /\ IndexingOff

\* chunk_transcript(transcript_list, chunk_size_minutes)
DoChunkTranscript ==
    /\ component = "chunk"
    /\ chunk_pc = "ready"
    /\ chunks' = ChunkTranscript(transcript_list, chunk_size_minutes)
    /\ chunk_pc' = "done"
    /\ UNCHANGED <<component, transcript_list, chunk_size_minutes, quizVars, searchVars,
                   engineVars, indexingVars>>

ChunkNext == DoChunkTranscript

SpecChunk == ChunkInit /\ [][ChunkNext]_vars

-----------------------------------------------------------------------------
(* Quiz analysis engine: the clustering model artifact *)

\* get_all_profiles()
Profiles == {"Struggling", "Rushed", "High Achiever"}

\* train_clustering_model(df, n_clusters=3)
NClusters == 3

\* cluster centres on the original scale, as training may find them
ClusterCenters ==
    {<<[avg_score |-> 35, avg_time |-> 95], [avg_score |-> 85, avg_time |-> 50],
       [avg_score |-> 50, avg_time |-> 15]>>,
     <<[avg_score |-> 80, avg_time |-> 20], [avg_score |-> 65, avg_time |-> 90],
       [avg_score |-> 40, avg_time |-> 40]>>}

\* "Create label mapping based on characteristics"
ClusterLabel(center) ==
    IF center.avg_score >= 65 THEN "High Achiever"
    ELSE IF center.avg_time <= 40 THEN "Rushed"
    ELSE "Struggling"

\* the dictionary save_model dumps (the fitted model and the scaler are
\* represented by the centres they were fitted to)
ModelPackage(centers) ==
    [centers |-> centers,
     labels_mapping |-> [cid \in 0..(NClusters - 1) |-> ClusterLabel(centers[cid + 1])]]

\* the file at MODEL_PATH
ModelFiles ==
    {[state |-> "missing", package |-> <<>>], [state |-> "corrupt", package |-> <<>>]}
        \cup {[state |-> "valid", package |-> <<ModelPackage(c)>>] : c \in ClusterCenters}

\* Mutant of LoadModel: a file that exists is taken to hold the last package
\* saved, whether joblib can load it or not.
LoadModel_TrustsFile(cached, file) ==
    IF cached # <<>> THEN [package |-> cached, outcome |-> "cached"]
    ELSE IF file.state = "missing" THEN [package |-> <<>>, outcome |-> "missing"]
    ELSE [package |-> <<ModelPackage(CHOOSE c \in ClusterCenters : TRUE)>>,
          outcome |-> IF file.state = "corrupt" THEN "load_error" ELSE "loaded"]

\* _load_model(): the cached package, else None when the file is missing or
\* joblib.load raises, else the package loaded (and cached)
LoadModel(cached, file) ==
    IF cached # <<>> THEN [package |-> cached, outcome |-> "cached"]
    ELSE IF file.state = "missing" THEN [package |-> <<>>, outcome |-> "missing"]
    ELSE IF file.state = "corrupt" THEN [package |-> <<>>, outcome |-> "load_error"]
    ELSE [package |-> file.package, outcome |-> "loaded"]

-----------------------------------------------------------------------------
(* Quiz analysis engine: analyze_student_performance *)

AnalysisScores == {35, 69, 70}
AnalysisTimes == {30, 31}
AnalysisTopics == {"Arrays", "Stacks"}

\* SEARCH_FILTERS.get(profile, {"difficulty": None, "style": None})
SearchFilters(profile) ==
    CASE profile = "Struggling" -> [difficulty |-> "Beginner", style |-> "Conceptual"]
      [] profile = "Rushed" -> [difficulty |-> Missing, style |-> "One_Shot"]
      [] profile = "High Achiever" -> [difficulty |-> "Advanced", style |-> "Interview_Prep"]
      [] OTHER -> [difficulty |-> Missing, style |-> Missing]

\* _generate_search_tag: the topic's template of the profile, else the
\* default template with the topic substituted
GenerateSearchTag(profile, topic) ==
    IF topic = "Arrays"
    THEN CASE profile = "Struggling" -> <<"Arrays basic tutorial step by step beginner friendly">>
           [] profile = "Rushed" -> <<"Arrays quick revision 5 minute summary">>
           [] OTHER -> <<"Arrays advanced problems interview questions">>
    ELSE CASE profile = "Struggling" -> <<topic, "basic tutorial step by step for beginners">>
           [] profile = "Rushed" -> <<topic, "quick summary 5 minutes revision">>
           [] OTHER -> <<topic, "advanced concepts techniques interview level">>

\* the "Simple rules" of _fallback_analysis
FallbackProfile(quiz_score, time_taken) ==
    IF quiz_score >= 70 THEN "High Achiever"
    ELSE IF time_taken <= 30 THEN "Rushed"
    ELSE "Struggling"

\* _fallback_analysis(score, time_taken, topic); confidence in hundredths
FallbackAnalysis(quiz_score, time_taken, topic) ==
    [cluster_id |-> -1,
     learner_profile |-> FallbackProfile(quiz_score, time_taken),
     search_tag |-> GenerateSearchTag(FallbackProfile(quiz_score, time_taken), topic),
     search_filters |-> SearchFilters(FallbackProfile(quiz_score, time_taken)),
     confidence |-> 50,
     recommendation_type |-> "general",
     fallback_mode |-> TRUE]

\* recommendation_types.get(learner_profile, "general")
RecommendationType(profile) ==
    CASE profile = "Struggling" -> "basic_tutorial"
      [] profile = "Rushed" -> "quick_summary"
      [] profile = "High Achiever" -> "advanced_content"
      [] OTHER -> "general"

\* the dictionary of the model path, for the cluster and the confidence the
\* fitted model gives and the texts ai_coach returns; results is None, so
\* weak_tags is empty
ModelAnalysis(package, cluster_id, confidence, fb, tag) ==
    [cluster_id |-> cluster_id,
     learner_profile |-> package.labels_mapping[cluster_id],
     search_tag |-> tag,
     search_filters |-> SearchFilters(package.labels_mapping[cluster_id]),
     confidence |-> confidence,
     recommendation_type |-> RecommendationType(package.labels_mapping[cluster_id]),
     feedback |-> fb,
     weak_tags |-> <<>>]

EngineInit ==
    /\ component = "engine"
    /\ engine_pc = "unimported"
    /\ model_file \in ModelFiles
    /\ model_package = <<>>
    /\ load_outcome = "not_called"
    /\ analysis_input = <<>>
    /\ analysis = <<>>
    /\ quiz_pc = "off"
    /\ coach_model \in {"none", "configured"}
    /\ QuizIdle
    /\ SearchOff
    /\ ChunkOff
    /\ IndexingOff

\* import of quiz_engine: "Load on import"
ImportQuizEngine ==
    /\ component = "engine"
    /\ engine_pc = "unimported"
    /\ model_package' = LoadModel(model_package, model_file).package
    /\ engine_pc' = "ready"
    /\ UNCHANGED <<component, model_file, load_outcome, analysis_input, analysis,
                   quizVars, searchVars, chunkVars, indexingVars>>

\* train_model.py run offline: save_model writes the artifact
SaveModel ==
    /\ component = "engine"
    /\ \E centers \in ClusterCenters :
          model_file' = [state |-> "valid", package |-> <<ModelPackage(centers)>>]
    /\ UNCHANGED <<component, engine_pc, model_package, load_outcome, analysis_input,
                   analysis, quizVars, searchVars, chunkVars, indexingVars>>

\* analyze_student_performance(score, time_taken, topic)
AnalyzeStudentPerformance ==
    /\ component = "engine"
    /\ engine_pc = "ready"
    /\ \E score_in \in AnalysisScores, time_in \in AnalysisTimes, topic \in AnalysisTopics :
       \E loaded \in {LoadModel(model_package, model_file)} :
            /\ analysis_input' = <<[score |-> score_in, time_taken |-> time_in,
                                    topic |-> topic]>>
            /\ model_package' = loaded.package
            /\ load_outcome' = loaded.outcome
            /\ IF loaded.package = <<>>
               THEN analysis' = <<FallbackAnalysis(score_in, time_in, topic)>>
               ELSE \E cluster_id \in 0..(NClusters - 1), confidence \in {0, 100},
                       feedback_outcome \in CallOutcomes(coach_model),
                       query_outcome \in CallOutcomes(coach_model) :
                    \E profile \in {loaded.package[1].labels_mapping[cluster_id]} :
                      analysis' = <<ModelAnalysis(loaded.package[1], cluster_id, confidence,
                          generate_coaching_feedback(coach_model, feedback_outcome).value,
                          generate_smart_search_query(coach_model, query_outcome,
                              profile, topic, {}).value)>>
    /\ UNCHANGED <<component, engine_pc, model_file, quizVars, searchVars, chunkVars,
                   indexingVars>>

EngineNext == ImportQuizEngine \/ SaveModel \/ AnalyzeStudentPerformance

SpecEngine == EngineInit /\ [][EngineNext]_vars

-----------------------------------------------------------------------------
(* Vector Index: the 'learning_videos' collection *)

\* video ids, as their characters; the second one contains an underscore
VideoIds == {<<"a">>, <<"a", "_", "1">>}

\* text_content of a chunk handed to store_video_data: empty, or one of two
\* texts
StoreTexts == {<<>>, <<"x">>, <<"y">>}

StoreChunks == [text_content : StoreTexts]

StoreChunkLists == SeqsUpTo(StoreChunks, MaxStoreChunks)

DecimalDigits == <<"0", "1", "2", "3", "4", "5", "6", "7", "8", "9">>

\* str(n) of a non-negative integer
RECURSIVE Str(_)
Str(n) ==
    IF n < 10 THEN <<DecimalDigits[n + 1]>>
    ELSE Str(n \div 10) \o <<DecimalDigits[(n % 10) + 1]>>

\* generate_chunk_id: f"{video_id}_{chunk_index}"
generate_chunk_id(video_id, chunk_index) == video_id \o <<"_">> \o Str(chunk_index)

\* the record store_video_data builds for chunk i (counted from 0) of the
\* list: id, document and the metadata that tell records apart
StoreRecord(video_id, chunk_list, i, source) ==
    [id |-> generate_chunk_id(video_id, i),
     document |-> chunk_list[i + 1].text_content,
     video_id |-> video_id,
     chunk_index |-> i,
     total_chunks |-> <<Len(chunk_list)>>,
     source |-> source]

\* "for i, chunk in enumerate(chunks)": chunks without text are skipped
StoreRecords(video_id, chunk_list, source) ==
    {StoreRecord(video_id, chunk_list, i, source) :
        i \in {k \in 0..(Len(chunk_list) - 1) : chunk_list[k + 1].text_content # <<>>}}

\* Mutant of Upsert: the records are added next to those they should replace.
Upsert_Adds(records, new) == records \cup new

\* collection.upsert: a record whose id is present is replaced, the others
\* are inserted
Upsert(records, new) ==
    {r \in records : \A n \in new : n.id # r.id} \cup new

\* the source argument of store_video_data: its default
DefaultSource == "Manual_Playlist"

\* the records of the collection after store_video_data(video_meta, chunks)
\* whose embedding calls behave as outcome says
StoreVideoData(records, video_id, chunk_list, source, outcome) ==
    IF chunk_list = <<>> THEN records
    ELSE IF outcome = "raise" /\ StoreRecords(video_id, chunk_list, source) # {}
    THEN records
    ELSE IF StoreRecords(video_id, chunk_list, source) = {} THEN records
    ELSE Upsert(records, StoreRecords(video_id, chunk_list, source))

\* what store_video_data returns: len(ids); <<>> when an exception left it
StoreVideoDataReturn(video_id, chunk_list, source, outcome) ==
    IF chunk_list = <<>> THEN <<0>>
    ELSE IF outcome = "raise" /\ StoreRecords(video_id, chunk_list, source) # {}
    THEN <<>>
    ELSE <<Cardinality(StoreRecords(video_id, chunk_list, source))>>

StoreInit ==
    /\ component = "store"
    /\ learning_videos = {}
    /\ store_calls = <<>>
    /\ QuizOff
    /\ SearchOff
    /\ ChunkOff
    /\ EngineOff
    /\ PipelineOff
    /\ TaggerOff
    /\ FactoryOff

\* store_video_data(video_meta, chunks, ...), called directly; the embedding
\* model and the index answer
DoStoreVideoData ==
    /\ component = "store"
    /\ Len(store_calls) < MaxStoreCalls
    /\ \E video_id \in VideoIds, chunk_list \in StoreChunkLists :
            /\ learning_videos' = StoreVideoData(learning_videos, video_id, chunk_list,
                                                 DefaultSource, "ok")
            /\ store_calls' = Append(store_calls,
                   [video_id |-> video_id, chunks |-> chunk_list,
                    returned |-> StoreVideoDataReturn(video_id, chunk_list,
                                                      DefaultSource, "ok")])
    /\ UNCHANGED <<component, quizVars, searchVars, chunkVars, engineVars,
                   pipelineVars, taggerVars, factoryVars>>

StoreNext == DoStoreVideoData

SpecStore == StoreInit /\ [][StoreNext]_vars

-----------------------------------------------------------------------------
(* Transcript pipeline of the backend: POST /transcript/process *)

\* chunk_transcript(text, chunk_size=500, overlap=50)
PIPELINE_CHUNK_SIZE == 500
PIPELINE_OVERLAP == 50

Min(a, b) == IF a <= b THEN a ELSE b

\* chunk_transcript of a text of n words, from word i on: the slices
\* words[i:i + chunk_size], written as the text "i:j"
RECURSIVE ChunkWords(_, _)
ChunkWords(n, i) ==
    IF i >= n THEN <<>>
    ELSE <<Str(i) \o <<":">> \o Str(Min(i + PIPELINE_CHUNK_SIZE, n))>>
            \o ChunkWords(n, i + PIPELINE_CHUNK_SIZE - PIPELINE_OVERLAP)

\* what fetch_youtube_transcript returns: None (<<>>), or a text of so many
\* words, 0 words being a text of blanks
FetchedTranscripts == {<<>>, <<0>>, <<450>>, <<451>>}

\* f"{video_id}_chunk_{i}"
PipelineChunkId(video_id, i) ==
    video_id \o <<"_", "c", "h", "u", "n", "k", "_">> \o Str(i)

\* the record process_video adds for chunk i
PipelineRecord(video_id, chunk_list, i) ==
    [id |-> PipelineChunkId(video_id, i),
     document |-> chunk_list[i + 1],
     video_id |-> video_id,
     chunk_index |-> i,
     total_chunks |-> <<>>,
     source |-> "user_upload"]

\* check_video_exists: video_collection.get(where={"video_id": ...}, limit=1);
\* False without a collection and when the get raises
CheckVideoExists(records, video_id, outcome) ==
    /\ pipeline_collection
    /\ outcome = "ok"
    /\ \E r \in records : r.video_id = video_id

\* the collections the offline pipeline may have left when the backend starts
InitialCollections ==
    {{}, StoreVideoData({}, <<"a">>, <<[text_content |-> <<"x">>]>>, DefaultSource, "ok")}

PipelineInit ==
    /\ component = "pipeline"
    /\ learning_videos \in InitialCollections
    /\ store_calls = <<>>
    /\ embedding_loaded \in BOOLEAN
    /\ pipeline_collection \in BOOLEAN
    /\ request = [p \in Workers |-> IdleRequest]
    /\ QuizOff
    /\ SearchOff
    /\ ChunkOff
    /\ EngineOff
    /\ TaggerOff
    /\ FactoryOff

\* process_video up to the check: the title is fetched, then
\* check_video_exists decides whether the video is processed at all
ProcessVideoCheck(p) ==
    /\ component = "pipeline"
    /\ request[p].pc = "idle"
    /\ \E video_id \in VideoIds, outcome \in {"ok", "raise"} :
          request' = [request EXCEPT ![p] =
              IF CheckVideoExists(learning_videos, video_id, outcome)
              THEN [@ EXCEPT !.pc = "responded", !.video_id = video_id,
                             !.response = "already_processed"]
              ELSE [@ EXCEPT !.pc = "checked", !.video_id = video_id]]
    /\ UNCHANGED <<component, learning_videos, store_calls, embedding_loaded,
                   pipeline_collection, quizVars, searchVars, chunkVars, engineVars,
                   taggerVars, factoryVars>>

\* process_video from the transcript fetch to the start of the loop
ProcessVideoFetch(p) ==
    /\ component = "pipeline"
    /\ request[p].pc = "checked"
    /\ \E transcript \in FetchedTranscripts :
          request' = [request EXCEPT ![p] =
              IF transcript = <<>>
              THEN [@ EXCEPT !.pc = "responded", !.response = "no_transcript"]
              ELSE IF ~embedding_loaded \/ ~pipeline_collection
              THEN [@ EXCEPT !.pc = "responded", !.response = "http_500"]
              ELSE IF ChunkWords(transcript[1], 0) = <<>>
              THEN [@ EXCEPT !.pc = "responded", !.response = "stored"]
              ELSE [@ EXCEPT !.pc = "adding", !.chunks = ChunkWords(transcript[1], 0)]]
    /\ UNCHANGED <<component, learning_videos, store_calls, embedding_loaded,
                   pipeline_collection, quizVars, searchVars, chunkVars, engineVars,
                   taggerVars, factoryVars>>

\* video_collection.add of one record whose id is not in the collection
AddRecord(records, record) == records \cup {record}

\* one iteration of "for i, chunk in enumerate(chunks)": the embedding, then
\* video_collection.add.  An add under an id that is present is either
\* ignored or refused with an exception, depending on the version of the
\* index library.
ProcessVideoAdd(p) ==
    /\ component = "pipeline"
    /\ request[p].pc = "adding"
    /\ \E outcome \in {"ok", "raise"}, duplicate \in {"ignored", "refused"} :
       \E record \in {PipelineRecord(request[p].video_id, request[p].chunks,
                                     request[p].i)} :
       \E present \in {\E r \in learning_videos : r.id = record.id} :
          IF outcome = "raise" \/ (present /\ duplicate = "refused")
          THEN /\ request' = [request EXCEPT ![p].pc = "responded",
                                             ![p].response = "http_500"]
               /\ UNCHANGED learning_videos
          ELSE /\ learning_videos' = IF present THEN learning_videos
                                     ELSE AddRecord(learning_videos, record)
               /\ request' = [request EXCEPT ![p] =
                      IF @.i + 1 = Len(@.chunks)
                      THEN [@ EXCEPT !.i = @ + 1, !.pc = "responded",
                                     !.response = "stored"]
                      ELSE [@ EXCEPT !.i = @ + 1]]
    /\ UNCHANGED <<component, store_calls, embedding_loaded, pipeline_collection,
                   quizVars, searchVars, chunkVars, engineVars, taggerVars,
                   factoryVars>>

PipelineNext ==
    \E p \in Workers : ProcessVideoCheck(p) \/ ProcessVideoFetch(p) \/ ProcessVideoAdd(p)

SpecPipeline == PipelineInit /\ [][PipelineNext]_vars

-----------------------------------------------------------------------------
(* Indexing Pipeline: the tagger's style classification *)

\* KEYWORDS: the keyword lists of the style categories, as their characters
KEYWORDS ==
  [
    One_Shot |->
      <<<<"c", "r", "a", "s", "h", " ", "c", "o", "u", "r", "s", "e">>,
        <<"i", "n", " ", "o", "n", "e", " ", "v", "i", "d", "e", "o">>,
        <<"s", "u", "m", "m", "a", "r", "y", " ", "o", "f">>,
        <<"c", "h", "e", "a", "t", " ", "s", "h", "e", "e", "t">>,
        <<"e", "n", "t", "i", "r", "e", " ", "t", "o", "p", "i", "c">>,
        <<"f", "a", "s", "t", " ", "t", "r", "a", "c", "k">>,
        <<"r", "e", "c", "a", "p">>, <<"o", "n", "e", " ", "s", "h", "o", "t">>>>,
    Course |->
      <<<<"f", "u", "l", "l", " ", "c", "o", "u", "r", "s", "e">>,
        <<"z", "e", "r", "o", " ", "t", "o", " ", "h", "e", "r", "o">>,
        <<"c", "u", "r", "r", "i", "c", "u", "l", "u", "m">>,
        <<"b", "o", "o", "t", "c", "a", "m", "p">>,
        <<"c", "o", "m", "p", "l", "e", "t", "e", " ", "s", "e", "r", "i", "e", "s">>,
        <<"a", "l", "l", " ", "l", "e", "c", "t", "u", "r", "e", "s">>,
        <<"f", "r", "o", "m", " ", "s", "c", "r", "a", "t", "c", "h">>,
        <<"p", "l", "a", "y", "l", "i", "s", "t", " ", "c", "o", "v", "e", "r", "s">>>>,
    Practical |->
      <<<<"c", "o", "d", "e">>,
        <<"i", "m", "p", "l", "e", "m", "e", "n", "t", "a", "t", "i", "o", "n">>,
        <<"h", "a", "n", "d", "s", "-", "o", "n">>, <<"b", "u", "i", "l", "d">>,
        <<"p", "r", "o", "j", "e", "c", "t">>, <<"d", "e", "m", "o">>,
        <<"t", "y", "p", "i", "n", "g">>, <<"f", "u", "n", "c", "t", "i", "o", "n">>,
        <<"t", "e", "r", "m", "i", "n", "a", "l">>,
        <<"t", "u", "t", "o", "r", "i", "a", "l">>>>,
    Interview_Prep |->
      <<<<"l", "e", "e", "t", "c", "o", "d", "e">>,
        <<"s", "o", "l", "u", "t", "i", "o", "n">>,
        <<"p", "r", "o", "b", "l", "e", "m">>,
        <<"c", "o", "m", "p", "l", "e", "x", "i", "t", "y">>,
        <<"g", "o", "o", "g", "l", "e">>, <<"a", "m", "a", "z", "o", "n">>,
        <<"i", "n", "t", "e", "r", "v", "i", "e", "w">>,
        <<"a", "p", "p", "r", "o", "a", "c", "h">>,
        <<"o", "p", "t", "i", "m", "i", "z", "i", "n", "g">>>>,
    Conceptual |->
      <<<<"t", "h", "e", "o", "r", "y">>, <<"c", "o", "n", "c", "e", "p", "t">>,
        <<"u", "n", "d", "e", "r", " ", "t", "h", "e", " ", "h", "o", "o", "d">>,
        <<"a", "r", "c", "h", "i", "t", "e", "c", "t", "u", "r", "e">>,
        <<"d", "i", "a", "g", "r", "a", "m">>,
        <<"w", "h", "i", "t", "e", "b", "o", "a", "r", "d">>,
        <<"w", "h", "y", " ", "i", "t", " ", "w", "o", "r", "k", "s">>,
        <<"v", "i", "s", "u", "a", "l", "i", "z", "e">>>>,
    Advice |->
      <<<<"r", "o", "a", "d", "m", "a", "p">>,
        <<"m", "i", "s", "t", "a", "k", "e", "s">>, <<"s", "a", "l", "a", "r", "y">>,
        <<"j", "o", "b", "s">>, <<"r", "e", "s", "u", "m", "e">>,
        <<"c", "a", "r", "e", "e", "r">>, <<"g", "u", "i", "d", "e", " ", "t", "o">>,
        <<"r", "e", "s", "o", "u", "r", "c", "e", "s">>>>
  ]

\* the categories in the order of the dictionary
StyleOrder == <<"One_Shot", "Course", "Practical", "Interview_Prep", "Conceptual", "Advice">>

UpperCaseLetters ==
    <<"A", "B", "C", "D", "E", "F", "G", "H", "I", "J", "K", "L", "M", "N", "O", "P",
        "Q", "R", "S", "T", "U", "V", "W", "X", "Y", "Z">>
LowerCaseLetters ==
    <<"a", "b", "c", "d", "e", "f", "g", "h", "i", "j", "k", "l", "m", "n", "o", "p",
        "q", "r", "s", "t", "u", "v", "w", "x", "y", "z">>

\* str.lower of one character and of a text
LowerChar(c) ==
    IF \E k \in DOMAIN UpperCaseLetters : UpperCaseLetters[k] = c
    THEN LowerCaseLetters[CHOOSE k \in DOMAIN UpperCaseLetters : UpperCaseLetters[k] = c]
    ELSE c

Lower(text) == [k \in 1..Len(text) |-> LowerChar(text[k])]

\* w occurs in text at position k
OccursAt(text, w, k) ==
    /\ k + Len(w) - 1 <= Len(text)
    /\ text[k] = w[1]
    /\ SubSeq(text, k, k + Len(w) - 1) = w

\* "w in text"
Contains(text, w) == \E k \in 1..Len(text) : OccursAt(text, w, k)

\* text.count(w): the occurrences counted from the left, none overlapping
\* the one before it; k is where the search goes on
RECURSIVE CountFrom(_, _, _)
CountFrom(text, w, k) ==
    LET found == {j \in k..Len(text) : OccursAt(text, w, j)}
    IN  IF found = {} THEN 0
        ELSE 1 + CountFrom(text, w, (CHOOSE j \in found : \A x \in found : j <= x) + Len(w))

\* the weights of a keyword in the title and in the introduction, and the
\* length of the introduction
TITLE_POINTS == 10
INTRO_POINTS == 5
INTRO_LENGTH == 500

\* Mutant of Intro: the whole transcript counts as the introduction.
Intro_WholeTranscript(transcript_lower) == transcript_lower

\* intro_lower = transcript_lower[:500]
Intro(transcript_lower) == Take(transcript_lower, INTRO_LENGTH)

\* the points the three loops add to scores[style] for the keywords words
RECURSIVE StylePoints(_, _, _)
StylePoints(words, title_lower, transcript_lower) ==
    IF words = <<>> THEN 0
    ELSE (IF Contains(title_lower, Head(words)) THEN TITLE_POINTS ELSE 0)
         + (IF Contains(Intro(transcript_lower), Head(words)) THEN INTRO_POINTS ELSE 0)
         + CountFrom(transcript_lower, Head(words), 1)
         + StylePoints(Tail(words), title_lower, transcript_lower)

\* max(scores, key=scores.get): the first category of the dictionary with
\* the highest score, looked for from position k on
RECURSIVE BestFrom(_, _, _)
BestFrom(style_scores, k, best) ==
    IF k > Len(StyleOrder) THEN best
    ELSE IF style_scores[StyleOrder[k]] > style_scores[best]
         THEN BestFrom(style_scores, k + 1, StyleOrder[k])
         ELSE BestFrom(style_scores, k + 1, best)

\* the duration limits of the fallback
SHORT_DURATION == 300
LONG_DURATION == 3600

\* determine_style_with_scoring from the scores on
StyleAndGranularity(style_scores, duration) ==
    LET best_style == BestFrom(style_scores, 2, StyleOrder[1])
    IN  IF style_scores[best_style] = 0
        THEN IF duration < SHORT_DURATION
             THEN [style |-> "Quick_Summary", granularity |-> "Specific"]
             ELSE IF duration > LONG_DURATION
             THEN [style |-> "Course", granularity |-> "Broad"]
             ELSE [style |-> "Conceptual", granularity |-> "Specific"]
        ELSE [style |-> best_style,
              granularity |-> IF best_style \in {"Course", "Advice"}
                              THEN "Broad" ELSE "Specific"]

\* titles: none; one keyword of Course in capitals; a keyword of Advice and
\* one of One_Shot; a keyword of Practical
TaggerTitles ==
    {<<>>,
     <<"F", "U", "L", "L", " ", "C", "o", "u", "r", "s", "e">>,
     <<"R", "o", "a", "d", "m", "a", "p", " ", "r", "e", "c", "a", "p">>,
     <<"c", "o", "d", "e">>}

\* transcripts: none; a keyword of Conceptual in capitals; a keyword of
\* Practical ending at character 500 or crossing it, followed by a second
\* one; twelve times a keyword of Advice; a keyword of Interview_Prep that
\* contains one of Practical; a text without keywords
TaggerTranscripts ==
    {<<>>,
     <<"T", "H", "E", "O", "R", "Y">>,
     Rep("z", INTRO_LENGTH - 4) \o <<"c", "o", "d", "e", " ", "c", "o", "d", "e">>,
     Rep("z", INTRO_LENGTH - 3) \o <<"c", "o", "d", "e", " ", "c", "o", "d", "e">>,
     Join([k \in 1..12 |-> <<"c", "a", "r", "e", "e", "r">>]),
     <<"l", "e", "e", "t", "c", "o", "d", "e">>,
     <<"h", "e", "l", "l", "o">>}

TaggerDurations == {SHORT_DURATION - 1, SHORT_DURATION, LONG_DURATION, LONG_DURATION + 1}

TaggerInit ==
    /\ component = "tagger"
    /\ tagger_pc = "ready"
    /\ tag_title \in TaggerTitles
    /\ tag_transcript \in TaggerTranscripts
    /\ tag_duration \in TaggerDurations
    /\ TaggerIdle
    /\ QuizOff
    /\ SearchOff
    /\ ChunkOff
    /\ EngineOff
    /\ StoreOff
    /\ PipelineOff
    /\ FactoryOff

\* determine_style_with_scoring(title, full_transcript, duration)
DetermineStyleWithScoring ==
    /\ component = "tagger"
    /\ tagger_pc = "ready"
    /\ \E title_lower \in {Lower(tag_title)},
          transcript_lower \in {Lower(tag_transcript)} :
       \E style_scores \in {[k \in DOMAIN KEYWORDS |->
                                StylePoints(KEYWORDS[k], title_lower, transcript_lower)]} :
       \E result \in {StyleAndGranularity(style_scores, tag_duration)} :
            /\ tag_scores' = style_scores
            /\ tag_style' = result.style
            /\ tag_granularity' = result.granularity
    /\ tagger_pc' = "done"
    /\ UNCHANGED <<component, tag_title, tag_transcript, tag_duration, quizVars, searchVars,
                   chunkVars, engineVars, storeVars, pipelineVars, factoryVars>>

TaggerNext == DetermineStyleWithScoring

SpecTagger == TaggerInit /\ [][TaggerNext]_vars

-----------------------------------------------------------------------------
(* Orchestrator of the data factory: run_orchestrator *)

TaskIds == 1..MaxTasks

\* the video id behind the url of a task
TaskVideoId(task_id) == <<"v">> \o Str(task_id)

\* a document of the 'videos' collection
NewTask(source_type, status) ==
    [source_type |-> source_type, status |-> status, attempts |-> 0,
     error |-> <<>>, vector_count |-> <<>>]

\* the chunks of an available video, after chunking and enrichment
FactoryChunks == <<[text_content |-> <<"x">>]>>

\* mongo_doc.get("source", "Unknown")
UnknownSource == "Unknown"

\* str(e) of the NameError raised by "print(f(...))" in the playlist branch
NameErrorMessage ==
    <<"n", "a", "m", "e", " ", "'", "f", "'", " ", "i", "s", " ", "n", "o", "t", " ", "d", "e", "f", "i", "n", "e", "d">>

\* "Pipeline failure", the processing_error of a failed video task
PipelineFailure ==
    <<"P", "i", "p", "e", "l", "i", "n", "e", " ", "f", "a", "i", "l", "u", "r", "e">>

\* the words by which the handler recognises a video that is gone for good
PermanentWords ==
    {<<"u", "n", "a", "v", "a", "i", "l", "a", "b", "l", "e">>,
     <<"p", "r", "i", "v", "a", "t", "e", " ", "v", "i", "d", "e", "o">>,
     <<"r", "e", "m", "o", "v", "e", "d">>}

\* the status the "except Exception as e" branch of the loop writes
StatusOnException(error_msg) ==
    IF \E w \in PermanentWords : Contains(Lower(error_msg), w)
    THEN "unavailable" ELSE "error"

\* what the extractors meet: a video that is gone is unavailable at every
\* attempt, another video is fetched or fails for the moment (rate limit,
\* network)
ExtractorOutcomes(gone) == IF gone THEN {"unavailable"} ELSE {"ok", "transient"}

\* process_single_video(url, mongo_doc): get_video_metadata and
\* get_transcript return None on every failure, and every exception,
\* "Metadata fetch failed" included, is caught inside: the caller receives
\* success False.  records is the collection before and after.
ProcessSingleVideo(records, video_id, extractor, store_outcome) ==
    IF extractor # "ok"
    THEN [success |-> FALSE, count |-> 0, records |-> records]
    ELSE IF StoreVideoDataReturn(video_id, FactoryChunks, UnknownSource,
                                 store_outcome) = <<>>
    THEN [success |-> FALSE, count |-> 0, records |-> records]
    ELSE [success |-> TRUE,
          count |-> StoreVideoDataReturn(video_id, FactoryChunks, UnknownSource,
                                         store_outcome)[1],
          records |-> StoreVideoData(records, video_id, FactoryChunks, UnknownSource,
                                     store_outcome)]

\* the ids of the documents whose status is pending or error, in id order
RECURSIVE SelectPending(_, _)
SelectPending(docs, k) ==
    IF k > Len(docs) THEN <<>>
    ELSE (IF docs[k].status \in {"pending", "error"} THEN <<k>> ELSE <<>>)
         \o SelectPending(docs, k + 1)

FactoryInit ==
    /\ component = "factory"
    /\ mongo_connected \in BOOLEAN
    /\ gone_videos \in SUBSET TaskIds
    /\ tasks \in [TaskIds -> {NewTask(t, st) : t \in {"video", "playlist"},
                                               st \in {"pending", "done"}}]
    /\ \A t \in gone_videos : tasks[t].source_type = "video"
    /\ run_pc = "idle"
    /\ pending_tasks = <<>>
    /\ run_count = 0
    /\ learning_videos = {}
    /\ store_calls = <<>>
    /\ QuizOff
    /\ SearchOff
    /\ ChunkOff
    /\ EngineOff
    /\ PipelineOff
    /\ TaggerOff

\* run_orchestrator up to the loop: nothing without the database, else the
\* pending and error tasks are fetched
StartRun ==
    /\ component = "factory"
    /\ run_pc = "idle"
    /\ run_count < MaxRuns
    /\ run_count' = run_count + 1
    /\ IF mongo_connected
       THEN /\ pending_tasks' = SelectPending(tasks, 1)
            /\ run_pc' = "running"
       ELSE UNCHANGED <<pending_tasks, run_pc>>
    /\ UNCHANGED <<component, mongo_connected, gone_videos, tasks, quizVars, searchVars,
                   chunkVars, engineVars, storeVars, pipelineVars, taggerVars>>

\* one iteration of "for task in pending_tasks"
ProcessTask ==
    /\ component = "factory"
    /\ run_pc = "running"
    /\ pending_tasks # <<>>
    /\ \E task_id \in {Head(pending_tasks)} :
       \E extractor \in ExtractorOutcomes(task_id \in gone_videos),
          store_outcome \in {"ok", "raise"} :
       \E result \in {ProcessSingleVideo(learning_videos, TaskVideoId(task_id),
                                         extractor, store_outcome)} :
          IF tasks[task_id].source_type = "playlist"
          THEN /\ tasks' = [tasks EXCEPT ![task_id].attempts = @ + 1,
                                         ![task_id].status =
                                             StatusOnException(NameErrorMessage),
                                         ![task_id].error = NameErrorMessage]
               /\ UNCHANGED learning_videos
          ELSE /\ learning_videos' = result.records
               /\ tasks' = [tasks EXCEPT ![task_id] =
                      IF result.success
                      THEN [@ EXCEPT !.attempts = @ + 1, !.status = "done",
                                     !.vector_count = <<result.count>>]
                      ELSE [@ EXCEPT !.attempts = @ + 1, !.status = "error",
                                     !.error = PipelineFailure]]
    /\ pending_tasks' = Tail(pending_tasks)
    /\ UNCHANGED <<component, mongo_connected, gone_videos, run_pc, run_count, store_calls,
                   quizVars, searchVars, chunkVars, engineVars, pipelineVars, taggerVars>>

\* the loop is over: the final statistics are printed
EndRun ==
    /\ component = "factory"
    /\ run_pc = "running"
    /\ pending_tasks = <<>>
    /\ run_pc' = "idle"
    /\ UNCHANGED <<component, mongo_connected, gone_videos, tasks, pending_tasks, run_count,
                   quizVars, searchVars, chunkVars, engineVars, storeVars, pipelineVars,
                   taggerVars>>

FactoryNext == StartRun \/ ProcessTask \/ EndRun

SpecFactory == FactoryInit /\ [][FactoryNext]_vars

-----------------------------------------------------------------------------
(* The whole system: a behaviour exercises one subsystem *)

Init ==
    \/ QuizInit \/ SearchInit \/ ChunkInit \/ EngineInit
    \/ StoreInit \/ PipelineInit \/ TaggerInit \/ FactoryInit

Next ==
    \/ QuizNext \/ SearchNext \/ ChunkNext \/ EngineNext
    \/ StoreNext \/ PipelineNext \/ TaggerNext \/ FactoryNext

Spec == Init /\ [][Next]_vars

-----------------------------------------------------------------------------
(* Indexing Pipeline: properties *)

\* C8: no chunk emitted by chunk_transcript has a text shorter than the
\* minimum length threshold, whether it was closed on reaching the window or
\* is the trailing remainder.
C8_NoShortChunk ==
    chunk_pc = "done" =>
        \A i \in DOMAIN chunks : Len(chunks[i].text_content) >= MIN_CHUNK_TEXT_LENGTH

\* a chunk of exactly the minimum length was kept and a shorter one was dropped
C8_Witness ==
    /\ chunk_pc = "done"
    /\ Len(transcript_list) = 3
    /\ Len(chunks) = 1
    /\ Len(chunks[1].text_content) = MIN_CHUNK_TEXT_LENGTH
    /\ Len(Strip(transcript_list[1].text)) < MIN_CHUNK_TEXT_LENGTH

\* C9: the start times of the returned chunks are non-decreasing in output
\* order, for any segment list and any positive window.
C9_StartTimesMonotonic ==
    chunk_pc = "done" =>
        \A i, j \in DOMAIN chunks : i < j => chunks[i].start_time <= chunks[j].start_time

\* several chunks out of a transcript whose segments are not in time order
C9_Witness ==
    /\ chunk_pc = "done"
    /\ Len(chunks) >= 2
    /\ chunks[1].start_time > 0
    /\ \E i, j \in DOMAIN transcript_list :
          i < j /\ transcript_list[i].start > transcript_list[j].start

\* C10: every emitted chunk has end_time > start_time, for segments with
\* non-negative starts and non-negative, zero or missing durations.
C10_EndAfterStart ==
    chunk_pc = "done" =>
        \A i \in DOMAIN chunks : chunks[i].end_time > chunks[i].start_time

\* the transcript is one of contiguous segments that begins at 0 and ends
\* after twelve minutes
IsTwelveMinutes(list) ==
    /\ list # <<>>
    /\ list[1].start = 0
    /\ \A i \in 1..(Len(list) - 1) : SegmentEnd(list[i]) = list[i + 1].start
    /\ SegmentEnd(list[Len(list)]) = TwelveMinutes

\* the end of the first segment that lies a window or more after `from`
CloseAfter(list, from, window) ==
    CHOOSE e \in {SegmentEnd(list[i]) : i \in DOMAIN list} :
        /\ e - from >= window
        /\ \A i \in DOMAIN list :
              SegmentEnd(list[i]) - from >= window => e <= SegmentEnd(list[i])

RECURSIVE SumStrippedLen(_)
SumStrippedLen(list) ==
    IF list = <<>> THEN 0 ELSE Len(Strip(Head(list).text)) + SumStrippedLen(Tail(list))

\* the length of the joined text of the segments that lie within [lo, hi]
SpanTextLen(list, lo, hi) ==
    LET inside == SelectSeq(list, LAMBDA g : g.start >= lo /\ SegmentEnd(g) <= hi)
    IN  IF inside = <<>> THEN 0 ELSE SumStrippedLen(inside) + Len(inside) - 1

\* C11 as stated: every emitted chunk but the last spans at least the window,
\* and a 12-minute transcript of contiguous segments cut with a 5-minute
\* window yields 3 chunks (here with segment texts long enough that no chunk
\* can be dropped for its text).
C11_TwelveMinutesThreeChunks ==
    chunk_pc = "done" =>
        /\ \A i \in 1..(Len(chunks) - 1) :
              chunks[i].end_time - chunks[i].start_time >= chunk_size_minutes * 60
        /\ ( /\ IsTwelveMinutes(transcript_list)
             /\ chunk_size_minutes = DEFAULT_CHUNK_SIZE_MINUTES
             /\ \A i \in DOMAIN transcript_list :
                   Len(Strip(transcript_list[i].text)) >= MIN_CHUNK_TEXT_LENGTH )
          => Len(chunks) = 3

\* C11 (amended): every emitted chunk but the last spans at least the window;
\* a 12-minute transcript of contiguous segments, none longer than a minute,
\* is cut by a 5-minute window into three spans, closed at the end of the
\* first segment that reaches the window, and each of the three, the last
\* included, is emitted exactly when its text reaches the minimum length.
C11_WindowClosesChunk ==
    chunk_pc = "done" =>
        /\ \A i \in 1..(Len(chunks) - 1) :
              chunks[i].end_time - chunks[i].start_time >= chunk_size_minutes * 60
        /\ ( /\ IsTwelveMinutes(transcript_list)
             /\ chunk_size_minutes = DEFAULT_CHUNK_SIZE_MINUTES
             /\ \A i \in DOMAIN transcript_list :
                   SegmentEnd(transcript_list[i]) - transcript_list[i].start <= 60 )
          => LET window == chunk_size_minutes * 60
                 c1 == CloseAfter(transcript_list, 0, window)
                 c2 == CloseAfter(transcript_list, c1, window)
                 spans == << <<0, c1>>, <<c1, c2>>, <<c2, TwelveMinutes>> >>
                 kept == SelectSeq(spans, LAMBDA s :
                            SpanTextLen(transcript_list, s[1], s[2])
                                >= MIN_CHUNK_TEXT_LENGTH)
             IN  /\ c2 < TwelveMinutes
                 /\ Len(chunks) = Len(kept)
                 /\ \A i \in DOMAIN chunks :
                       /\ chunks[i].start_time = kept[i][1]
                       /\ chunks[i].end_time = kept[i][2]

\* twelve one-minute segments cut into chunks of 5, 5 and 2 minutes
C11_Witness ==
    /\ chunk_pc = "done"
    /\ chunk_size_minutes = DEFAULT_CHUNK_SIZE_MINUTES
    /\ IsTwelveMinutes(transcript_list)
    /\ Len(transcript_list) = 12
    /\ Len(chunks) = 3
    /\ chunks[1].duration = 300
    /\ chunks[2].duration = 300
    /\ chunks[3].duration = 120

-----------------------------------------------------------------------------
(* Quiz analysis engine: properties *)

\* C18: when the model artifact is missing or fails to load,
\* analyze_student_performance returns the rule-based classification: a
\* learner_profile among Struggling, Rushed, High Achiever, fallback_mode true
\* and cluster_id -1; a result produced with the model loaded never carries
\* fallback_mode true.
C18_FallbackWhenModelUnavailable ==
    analysis # <<>> =>
        \* the artifact is never removed, so one that is missing or corrupt
        \* now was so when the analysis ran
        /\ (model_file.state \in {"missing", "corrupt"}
               \/ load_outcome \in {"missing", "load_error"}) =>
              /\ analysis[1].learner_profile \in Profiles
              /\ "fallback_mode" \in DOMAIN analysis[1]
              /\ analysis[1].fallback_mode = TRUE
              /\ analysis[1].cluster_id = -1
        /\ (model_package # <<>> \/ load_outcome \in {"cached", "loaded"}) =>
              /\ "fallback_mode" \notin DOMAIN analysis[1]
              /\ analysis[1].cluster_id >= 0

\* an artifact that exists and cannot be loaded, and an analysis in fallback
\* mode from it
C18_Witness ==
    /\ analysis # <<>>
    /\ model_file.state = "corrupt"
    /\ load_outcome = "load_error"
    /\ analysis[1].cluster_id = -1
    /\ analysis[1].learner_profile = "Rushed"

-----------------------------------------------------------------------------
(* Vector Index: properties of store_video_data *)

\* no two records of the collection share an id
OnePerId(records) ==
    \A r1 \in records, r2 \in records : r1.id = r2.id => r1 = r2

\* every chunk with text of the call is in the collection under the id
\* video id + "_" + index, with the data of that call
HoldsDataOf(records, call) ==
    \A i \in 0..(Len(call.chunks) - 1) :
        call.chunks[i + 1].text_content # <<>> =>
            \E r \in records :
                /\ r.id = call.video_id \o <<"_">> \o Str(i)
                /\ r.document = call.chunks[i + 1].text_content
                /\ r.video_id = call.video_id
                /\ r.chunk_index = i
                /\ r.total_chunks = <<Len(call.chunks)>>

LastCall == store_calls[Len(store_calls)]

\* the last call repeated the call before it, and both returned
RepeatedCall ==
    /\ Len(store_calls) >= 2
    /\ LastCall.video_id = store_calls[Len(store_calls) - 1].video_id
    /\ LastCall.chunks = store_calls[Len(store_calls) - 1].chunks
    /\ LastCall.returned # <<>>
    /\ store_calls[Len(store_calls) - 1].returned # <<>>

\* C21: store_video_data writes each chunk under the id parent video id +
\* "_" + sequential index by upsert: after a call that returned, the
\* collection holds exactly one record per chunk id, the records of the
\* chunks of that call hold that call's data, and a call that repeats the
\* previous call with the same chunks leaves the number of records unchanged.
C21_UpsertOverwrites ==
    [][ store_calls' # store_calls =>
          /\ OnePerId(learning_videos')
          /\ LastCall'.returned # <<>> => HoldsDataOf(learning_videos', LastCall')
          /\ RepeatedCall' =>
                Cardinality(learning_videos') = Cardinality(learning_videos) ]_vars

\* the same video was stored twice with chunk lists of the same length and
\* different texts, and the collection holds the second call's texts
C21_Witness ==
    /\ Len(store_calls) = 2
    /\ store_calls[1].video_id = store_calls[2].video_id
    /\ store_calls[1].returned = <<2>>
    /\ store_calls[2].returned = <<2>>
    /\ store_calls[1].chunks[1] # store_calls[2].chunks[1]
    /\ Cardinality(learning_videos) = 2
    /\ HoldsDataOf(learning_videos, store_calls[2])

-----------------------------------------------------------------------------
(* Transcript pipeline of the backend: properties *)

\* C22: the offline Indexing Pipeline is the only writer of the Vector Index:
\* no step of a request served by the live backend adds, updates or deletes a
\* record of the 'learning_videos' collection.
C22_LiveBackendWritesNothing == [][learning_videos' = learning_videos]_vars

\* the request of worker p failed inside the loop of process_video
FailedInLoop(p) ==
    /\ request[p].response = "http_500"
    /\ embedding_loaded
    /\ pipeline_collection

\* C29: process_video is all-or-nothing on the index: when the embedding or
\* the add of a chunk fails partway through the loop of a request, and no
\* other request handled the same video, no chunk process_video added for
\* that video remains in the index.
C29_AllOrNothing ==
    \A p \in Workers :
        ( /\ FailedInLoop(p)
          /\ \A q \in Workers \ {p} : request[q].video_id # request[p].video_id )
        => ~ \E r \in learning_videos :
                /\ r.video_id = request[p].video_id
                /\ r.source = "user_upload"

\* C30: two concurrent process_video requests for the same video never both
\* pass check_video_exists and then both add chunks under the same chunk
\* ids: no two workers are inside the loop for the same video at once, each
\* having got through the add of chunk 0.
C30_OneRequestStores ==
    \A p \in Workers, q \in Workers :
        ( /\ p # q
          /\ request[p].video_id = request[q].video_id
          /\ request[p].pc = "adding"
          /\ request[q].pc = "adding" )
        => ~ (request[p].i >= 1 /\ request[q].i >= 1)

-----------------------------------------------------------------------------
(* Tagger: properties *)

KeywordsOf(category) == {KEYWORDS[category][k] : k \in DOMAIN KEYWORDS[category]}

\* the number of places of the text at which w occurs
Occurrences(text, w) == Cardinality({k \in 1..Len(text) : OccursAt(text, w, k)})

\* the occurrences of the first n keywords of the category in the text
RECURSIVE OccurrencesOfFirst(_, _, _)
OccurrencesOfFirst(category, text, n) ==
    IF n = 0 THEN 0
    ELSE Occurrences(text, KEYWORDS[category][n]) + OccurrencesOfFirst(category, text, n - 1)

\* the score of the category: 10 per keyword found in the title, 5 per
\* keyword found in the first 500 characters of the transcript, 1 per
\* occurrence of a keyword in the transcript (all in lower case)
ExpectedScore(category) ==
    10 * Cardinality({w \in KeywordsOf(category) : Contains(Lower(tag_title), w)})
    + 5 * Cardinality({w \in KeywordsOf(category) :
                          Contains(Take(Lower(tag_transcript), 500), w)})
    + OccurrencesOfFirst(category, Lower(tag_transcript), Len(KEYWORDS[category]))

\* C23: determine_style_with_scoring scores each category as 10 for every
\* keyword found in the title plus 5 for every keyword found in the first
\* 500 characters of the transcript plus 1 per occurrence of a keyword in the
\* transcript; it returns a category with the highest score, with granularity
\* Broad exactly when the style returned is Course or Advice; and only when
\* every score is zero it falls back to the duration: under 300 s
\* Quick_Summary, over 3600 s Course, otherwise Conceptual.
C23_WeightedStyleScore ==
    tagger_pc = "done" =>
        /\ \A category \in DOMAIN KEYWORDS : tag_scores[category] = ExpectedScore(category)
        /\ IF \A category \in DOMAIN KEYWORDS : ExpectedScore(category) = 0
           THEN tag_style = IF tag_duration < 300 THEN "Quick_Summary"
                            ELSE IF tag_duration > 3600 THEN "Course"
                            ELSE "Conceptual"
           ELSE /\ tag_style \in DOMAIN KEYWORDS
                /\ \A category \in DOMAIN KEYWORDS :
                      ExpectedScore(tag_style) >= ExpectedScore(category)
        /\ tag_granularity = IF tag_style \in {"Course", "Advice"}
                             THEN "Broad" ELSE "Specific"

\* a keyword of Course in the title (10) is outweighed by a keyword of Advice
\* in the introduction (5) that occurs twelve times (12): Advice, Broad
C23_Witness ==
    /\ tagger_pc = "done"
    /\ tag_scores["Course"] = 10
    /\ tag_scores["Advice"] = 17
    /\ tag_style = "Advice"
    /\ tag_granularity = "Broad"

-----------------------------------------------------------------------------
(* Quiz analysis engine: the labels of the clusters *)

\* the cluster (counted from 1) with the highest mean score
TopScoreCluster(centers) ==
    CHOOSE i \in DOMAIN centers :
        \A j \in DOMAIN centers : centers[i].avg_score >= centers[j].avg_score

\* the cluster with the lowest mean time among those left
FastestOfRest(centers) ==
    CHOOSE i \in DOMAIN centers \ {TopScoreCluster(centers)} :
        \A j \in DOMAIN centers \ {TopScoreCluster(centers)} :
            centers[i].avg_time <= centers[j].avg_time

\* C24: the mapping saved with the model labels the cluster with the highest
\* mean score High Achiever, the cluster with the lowest mean time among the
\* others Rushed, and every cluster left Struggling, so that with three
\* clusters each profile labels exactly one cluster.
C24_LabelsByRank ==
    model_file.state = "valid" =>
        LET centers == model_file.package[1].centers
            mapping == model_file.package[1].labels_mapping
        IN  /\ \A i \in DOMAIN centers :
                  mapping[i - 1] =
                      IF i = TopScoreCluster(centers) THEN "High Achiever"
                      ELSE IF i = FastestOfRest(centers) THEN "Rushed"
                      ELSE "Struggling"
            /\ \A profile \in Profiles :
                  Cardinality({cid \in DOMAIN mapping : mapping[cid] = profile}) = 1

-----------------------------------------------------------------------------
(* Indexing Pipeline: the offsets of a chunk *)

\* the text of the segments lo..hi of the list, as chunk_transcript joins it
SpanText(list, lo, hi) ==
    Join([k \in 1..(hi - lo + 1) |-> Strip(list[lo + k - 1].text)])

\* a transcript as the transcript API delivers it: every segment has a
\* duration, and no segment starts before the one before it has ended
OrderedSegments(list) ==
    /\ \A k \in DOMAIN list : list[k].duration # <<>>
    /\ \A k \in 1..(Len(list) - 1) : SegmentEnd(list[k]) <= list[k + 1].start

\* C25: every chunk emitted by chunk_transcript for an ordered transcript
\* holds the text of a run of segments, records as start_time the start
\* offset of the first of them and as end_time the end (start + duration) of
\* the last of them; so a chunk opened after another was closed starts at the
\* start of the next segment.
C25_OffsetsOfOwnSegments ==
    (chunk_pc = "done" /\ OrderedSegments(transcript_list)) =>
        \A c \in DOMAIN chunks :
            \E lo \in DOMAIN transcript_list, hi \in DOMAIN transcript_list :
                /\ lo <= hi
                /\ chunks[c].text_content = SpanText(transcript_list, lo, hi)
                /\ chunks[c].start_time = transcript_list[lo].start
                /\ chunks[c].end_time = SegmentEnd(transcript_list[hi])

-----------------------------------------------------------------------------
(* Orchestrator of the data factory: properties *)

\* C26: a video task whose video is permanently gone has status
\* "unavailable" once a run has processed it, and no later run selects it
\* again; a video task that failed although its video exists has status
\* "error" until the next run selects it again.
C26_GoneVideosNotRetried ==
    \A t \in DOMAIN tasks :
        ( /\ tasks[t].source_type = "video"
          /\ tasks[t].attempts >= 1 )
        => IF t \in gone_videos
           THEN /\ tasks[t].status = "unavailable"
                /\ tasks[t].attempts = 1
           ELSE tasks[t].error # <<>> /\ tasks[t].status # "done"
                    => tasks[t].status = "error"

-----------------------------------------------------------------------------
(* Retrieval Engine: the relaxed-match note *)

\* C27: a result of find_best_video carries the relaxed-match note only if
\* the caller supplied at least one of the filters difficulty, style or
\* granularity: a call without filters returns no annotated result, whether
\* the embedding and index calls succeed or fail.
C27_NoteOnlyWithFilters ==
    (search_pc = "done" /\ where_filter = NoFilters) =>
        \A i \in DOMAIN recommendations : recommendations[i].note # RelaxedNote

-----------------------------------------------------------------------------
(* Vector Index: a video stored again *)

\* the calls before the last one that stored the same video
EarlierRuns ==
    {k \in 1..(Len(store_calls) - 1) :
        /\ store_calls[k].video_id = LastCall.video_id
        /\ store_calls[k].returned # <<>>}

\* C28: after store_video_data has been run again for a video, every record
\* of the collection whose parent is that video was written by the latest
\* run, also when the latest run produces fewer chunks than the earlier one
\* (the latest run stored at least one chunk).
C28_OnlyLatestRunSurvives ==
    ( /\ Len(store_calls) >= 2
      /\ LastCall.returned # <<>>
      /\ LastCall.returned[1] >= 1
      /\ EarlierRuns # {} )
    => \A r \in learning_videos :
           r.video_id = LastCall.video_id
           => r \in StoreRecords(LastCall.video_id, LastCall.chunks, DefaultSource)

=============================================================================
